---- MODULE Spec2Model ----
(***************************************************************************)
(* A model of the One-Pace-for-Plex tooling: the library classifier        *)
(* (dist/detect_obsolete.py), the rename script (dist/rename.py), and the  *)
(* range formatting / parsing and the repository update of the import tool *)
(* (tools/import_episode.py).                                              *)
(*                                                                         *)
(* Text is modelled as a sequence of one-character strings, so that the    *)
(* regular expressions and the string scans of the code are computed on    *)
(* characters and a parse is never the identity.                           *)
(***************************************************************************)
EXTENDS Integers, Sequences, FiniteSets, TLC

VARIABLES
    fs,          \* detect_obsolete: the library tree, path -> file content
    covered,     \* ObsoleteEpisodeDetector.covered_episodes
    todoNfo,     \* .nfo files _build_covered_episodes_index has yet to visit
    todoVid,     \* video files scan_library has yet to visit
    results,     \* ScanResults
    spc,         \* detect_obsolete: "build" | "scan" | "done" | "idle"
    numbers,     \* import_episode: the list given to _format_ranges
    range_text,  \* the string _format_ranges returned
    parsed,      \* what _parse_number_list returned for range_text
    extracted,   \* what _extract_anime_episodes_from_plot returned for it
    fpc,         \* ranges: "format" | "parse" | "done" | "idle"
    given,       \* rename: the Episode to name, or the parts of a library name
    fname,       \* the file name get_episode_from_media is given
    media,       \* the Episode get_episode_from_media returned
    ppc,         \* naming and parsing: "name" | "parse" | "done" | "idle"
    args,        \* the command line: dry_run, keep_original, force
    repo,        \* the sidecar repository ("One Pace" folder), path -> content
    lib,         \* the library rename.py works on (show_dir), path -> content
    nfo_data_lookup,  \* rename.py main: (season, number, is_extended) -> Episode
    todo,        \* the files the running loop has yet to visit
    pending,     \* rename.py main: the pending rename file list
    without_nfo, \* rename.py main: episodes_without_nfo
    counts,      \* update_repository_nfos: the four counters of the summary
    renames,     \* the renames performed: source, target, what was replaced
    asked,       \* update_repository_nfos: the prompts issued, each with
                 \* args.force as its iteration found it
    rpc,         \* rename.py: "lookup" | "collect" | "rename" | "done" |
                 \* "raised"; the update: "update" | "summary"; "idle"
    raw_title,   \* import_episode: the title given to the sanitizers
    sanitized,   \* apply_title_sanitization(title)
    resanitized, \* apply_title_sanitization(sanitized)
    normalized,  \* normalize_title_for_comparison(title)
    renormalized,\* normalize_title_for_comparison(normalized)
    str1,        \* flexible_match: the first string
    str2,        \* flexible_match: the second string
    threshold,   \* flexible_match: the threshold, in tenths
    similar,     \* what flexible_match returned for the pair, both ways
    tpc,         \* titles: "sanitize" ... "match" | "done" | "idle"
    config,      \* import_episode: Config, as the command line set it
    disk,        \* the directories and the files, path -> content
    attempts,    \* fetch_data: the attempts the call under way has made
    fetched,     \* title_plot_data and the episode guide, as loaded
    continue_answer,  \* main: the answer to "Continue anyway?", or "None"
    title_source_preference,  \* 'csv', 'media' or None
    date_cache,  \* DataSourceManager.date_cache
    date_inputs, \* the dates the operator was asked for: season, episode
                 \* and the answer that was accepted
    video_queue, \* main: the video files the loop has yet to process
    last,        \* what the latest process_episode did
    ipc,         \* import: "title_plot" | "ep_guide" (the fetch under
                 \* way) | "continue" | "process" | "done" | "failed" |
                 \* "quit" | "idle"
    subject,     \* functions side by side: the arguments they are given
    returned,    \* what each of them returned, by the name of the function
    cpc          \* "parsers" | "markers" | "clean" | "resolve" | "exceptions" | "idle"

scanVars == <<fs, covered, todoNfo, todoVid, results, spc>>

rangeVars == <<numbers, range_text, parsed, extracted, fpc>>

parseVars == <<given, fname, media, ppc>>

renameVars ==
    <<args, repo, lib, nfo_data_lookup, todo, pending, without_nfo, counts,
      renames, asked, rpc>>

titleVars ==
    <<raw_title, sanitized, resanitized, normalized, renormalized, str1,
      str2, threshold, similar, tpc>>

importVars ==
    <<config, disk, attempts, fetched, continue_answer,
      title_source_preference, date_cache, date_inputs, video_queue, last,
      ipc>>

callVars == <<subject, returned, cpc>>

vars ==
    <<scanVars, rangeVars, parseVars, renameVars, titleVars, importVars,
      callVars>>

\* the variables the classifier leaves alone
otherThanScan == <<rangeVars, parseVars, renameVars, titleVars,
      importVars, callVars>>

\* the variables the range formatting and parsing leave alone
otherThanRanges == <<scanVars, parseVars, renameVars, titleVars,
      importVars, callVars>>

\* the variables the naming and parsing of one file leave alone
otherThanParse == <<scanVars, rangeVars, renameVars, titleVars,
      importVars, callVars>>

\* the variables the rename script and the repository update leave alone
otherThanRename == <<scanVars, rangeVars, parseVars, titleVars,
      importVars, callVars>>

\* the variables the title functions leave alone
otherThanTitle ==
    <<scanVars, rangeVars, parseVars, renameVars, importVars, callVars>>

\* the variables the import run leaves alone
otherThanImport ==
    <<scanVars, rangeVars, parseVars, renameVars, titleVars, callVars>>

\* the variables the functions called side by side leave alone
otherThanCall ==
    <<scanVars, rangeVars, parseVars, renameVars, titleVars, importVars>>

(***************************************************************************)
(* Characters and strings                                                  *)
(***************************************************************************)
UpperLetters ==
    <<"A", "B", "C", "D", "E", "F", "G", "H", "I", "J", "K", "L", "M",
      "N", "O", "P", "Q", "R", "S", "T", "U", "V", "W", "X", "Y", "Z">>

LowerLetters ==
    <<"a", "b", "c", "d", "e", "f", "g", "h", "i", "j", "k", "l", "m",
      "n", "o", "p", "q", "r", "s", "t", "u", "v", "w", "x", "y", "z">>

Digits ==
    <<"0", "1", "2", "3", "4", "5", "6", "7", "8", "9">>

\* str.lower() of one character
Lower(c) ==
    IF \E i \in 1..Len(UpperLetters) : UpperLetters[i] = c
    THEN LowerLetters[CHOOSE i \in 1..Len(UpperLetters) : UpperLetters[i] = c]
    ELSE c

\* str.lower()
LowerStr(s) ==
    [i \in 1..Len(s) |-> Lower(s[i])]

\* regex \d
IsDigit(c) ==
    \E i \in 1..Len(Digits) : Digits[i] = c

\* regex \s, str.strip() whitespace
IsSpace(c) ==
    c \in {" ", "\t", "\n"}

\* the character at position i, "" past either end
At(s, i) ==
    IF i \in 1..Len(s) THEN s[i] ELSE ""

\* s[i:j] of Python with 1-based inclusive bounds; empty when j < i
Slice(s, i, j) ==
    IF j < i THEN <<>> ELSE SubSeq(s, i, j)

\* a literal at position i: the position after it, 0 when it is not there
Lit(s, i, lit) ==
    IF /\ i >= 1
       /\ i + Len(lit) - 1 <= Len(s)
       /\ \A k \in 1..Len(lit) : s[i + k - 1] = lit[k]
    THEN i + Len(lit) ELSE 0

\* a literal under re.IGNORECASE
LitCI(s, i, lit) ==
    Lit(LowerStr(s), i, LowerStr(lit))

\* Python's  lit in s
Contains(s, lit) ==
    \E i \in 1..(Len(s) + 1) : Lit(s, i, lit) # 0

\* regex \s* (greedy): the first position at or after i that holds no space
RECURSIVE SkipSpaces(_, _)
SkipSpaces(s, i) ==
    IF IsSpace(At(s, i)) THEN SkipSpaces(s, i + 1) ELSE i

\* regex \d+ (greedy): the position after the digit run at i, 0 when none
RECURSIVE DigitsEnd(_, _)
DigitsEnd(s, i) ==
    IF IsDigit(At(s, i))
    THEN IF IsDigit(At(s, i + 1)) THEN DigitsEnd(s, i + 1) ELSE i + 1
    ELSE 0

DigitVal(c) ==
    (CHOOSE i \in 1..Len(Digits) : Digits[i] = c) - 1

\* int() of a non-empty string of digits
RECURSIVE DigitsToInt(_)
DigitsToInt(s) ==
    IF Len(s) = 0 THEN 0
    ELSE 10 * DigitsToInt(SubSeq(s, 1, Len(s) - 1)) + DigitVal(s[Len(s)])

\* str.strip()
RECURSIVE Strip(_)
Strip(s) ==
    IF Len(s) = 0 THEN s
    ELSE IF IsSpace(s[1]) THEN Strip(Tail(s))
    ELSE IF IsSpace(s[Len(s)]) THEN Strip(SubSeq(s, 1, Len(s) - 1))
    ELSE s

\* the least position in from..Len(s)+1 that satisfies P, 0 when none
FirstPos(s, from, P(_)) ==
    IF \E i \in from..(Len(s) + 1) : P(i)
    THEN CHOOSE i \in from..(Len(s) + 1) :
             P(i) /\ \A j \in from..(i - 1) : ~P(j)
    ELSE 0


\* call by value: F applied to the value of v (v is computed once)
Bind(v, F(_)) ==
    F(v)
(***************************************************************************)
(* Literals of the code                                                    *)
(***************************************************************************)
S_OnePace ==
    <<"O", "n", "e", " ", "P", "a", "c", "e">>

S_BrOnePace ==
    <<"[", "O", "n", "e", " ", "P", "a", "c", "e", "]">>

S_Episode ==
    <<"E", "p", "i", "s", "o", "d", "e">>

S_Anime ==
    <<"A", "n", "i", "m", "e">>

S_One ==
    <<"O", "n", "e">>

S_Piece ==
    <<"P", "i", "e", "c", "e">>

S_OP ==
    <<"O", "P">>

S_Extended ==
    <<"E", "x", "t", "e", "n", "d", "e", "d">>

S_Alternate ==
    <<"A", "l", "t", "e", "r", "n", "a", "t", "e">>

S_extended ==
    <<"e", "x", "t", "e", "n", "d", "e", "d">>

S_mkv ==
    <<"m", "k", "v">>

S_mp4 ==
    <<"m", "p", "4">>

S_DotMkv ==
    <<".", "m", "k", "v">>

S_DotMp4 ==
    <<".", "m", "p", "4">>

S_DotNfo ==
    <<".", "n", "f", "o">>

S_DotGit ==
    <<".", "g", "i", "t">>

S_SeasonNfo ==
    <<"s", "e", "a", "s", "o", "n", ".", "n", "f", "o">>

S_TvshowNfo ==
    <<"t", "v", "s", "h", "o", "w", ".", "n", "f", "o">>

\* Python's None where an int is expected
NoneInt ==
    -1

\* Python's None where a str is expected (no text is a sequence of this)
NoneStr ==
    <<"None">>

(***************************************************************************)
(* detect_obsolete.py: the coverage marker                                 *)
(***************************************************************************)
\* an optional character x? under re.IGNORECASE (greedy), from position p
OptCI(s, p, c) ==
    IF p = 0 THEN 0
    ELSE IF Lower(At(s, p)) = c THEN p + 1 ELSE p

\* r'Episodes?\(?s?\)?:' matched at position e0
marker_tail_at(s, e0) ==
    Bind(OptCI(s, OptCI(s, OptCI(s, OptCI(s, LitCI(s, e0, S_Episode),
                                           "s"), "("), "s"), ")"),
         LAMBDA e5 : IF e5 = 0 THEN 0 ELSE Lit(s, e5, <<":">>))

\* r'(?:Anime\s+)?Episodes?\(?s?\)?:' matched at position i:
\* the position after the colon, 0 when there is no match at i
marker_at(s, i) ==
    Bind(LitCI(s, i, S_Anime),
         LAMBDA a : marker_tail_at(s, IF a # 0 /\ IsSpace(At(s, a))
                                      THEN SkipSpaces(s, a) ELSE i))

\* the character class [\d\-,\s]
InNumberClass(c) ==
    IsDigit(c) \/ IsSpace(c) \/ c \in {"-", ","}

RECURSIVE NumberClassEnd(_, _)
NumberClassEnd(s, i) ==
    IF InNumberClass(At(s, i)) THEN NumberClassEnd(s, i + 1) ELSE i

\* r'\s*([\d\-,\s]+)' after a marker that ends before position m:
\* \s* is greedy (w) and gives one space back when the group would be empty
episodes_group_at(s, m, w, g) ==
    IF m = 0 THEN <<0, 0>>
    ELSE IF g > w THEN <<w, g - 1>>
    ELSE IF w > m THEN <<w - 1, w - 1>>
    ELSE <<0, 0>>

\* r'(?:Anime\s+)?Episodes?\(?s?\)?:\s*([\d\-,\s]+)' matched at position i:
\* group 1 as <<first, last>>, <<0, 0>> when there is no match at i.
episodes_pattern_at(s, i) ==
    Bind(marker_at(s, i),
         LAMBDA m : Bind(SkipSpaces(s, m),
         LAMBDA w : episodes_group_at(s, m, w, NumberClassEnd(s, w))))

\* str.split(c)
RECURSIVE Split(_, _)
Split(s, c) ==
    Bind(FirstPos(s, 1, LAMBDA k : At(s, k) = c),
         LAMBDA p : IF p = 0 THEN <<s>>
                    ELSE <<Slice(s, 1, p - 1)>>
                         \o Split(Slice(s, p + 1, Len(s)), c))

\* a string of digits only, and not empty
AllDigits(t) ==
    Len(t) > 0 /\ \A k \in 1..Len(t) : IsDigit(t[k])

\* int(x) succeeds: surrounding whitespace is accepted, then digits only
IntOk(x) ==
    AllDigits(Strip(x))

IntOf(x) ==
    DigitsToInt(Strip(x))

\* a variant of range_numbers whose ranges leave their last number out
range_numbers_exclusive(ps) ==
    IF Len(ps) = 2 /\ IntOk(ps[1]) /\ IntOk(ps[2])
    THEN IntOf(ps[1])..(IntOf(ps[2]) - 1)
    ELSE {}

\* start, end = map(int, part.split('-')); range(start, end + 1)
\* (a ValueError adds nothing)
range_numbers(ps) ==
    IF Len(ps) = 2 /\ IntOk(ps[1]) /\ IntOk(ps[2])
    THEN IntOf(ps[1])..IntOf(ps[2])
    ELSE {}

\* one comma-separated part of a number list: the numbers it adds
part_numbers(part) ==
    IF Contains(part, <<"-">>)
    THEN range_numbers(Split(part, "-"))
    ELSE IF IntOk(part) THEN {IntOf(part)} ELSE {}

\* the numbers of the parts of a split list
parts_numbers(parts) ==
    UNION {part_numbers(Strip(parts[k])) : k \in 1..Len(parts)}

\* the numbers of a string such as "4-7, 9, 10-11", as a set
number_list_set(str) ==
    parts_numbers(Split(str, ","))

\* the least number of a non-empty set
MinOf(S) ==
    CHOOSE x \in S : \A y \in S : x <= y

\* the elements of a list
Range(seq) ==
    {seq[k] : k \in 1..Len(seq)}

\* sorted(set(...))
RECURSIVE SortedSeq(_)
SortedSeq(S) ==
    IF S = {} THEN <<>>
    ELSE Bind(MinOf(S), LAMBDA m : <<m>> \o SortedSeq(S \ {m}))

\* group 1 of a match, as text
group_text(s, g) ==
    Slice(s, g[1], g[2])

\* ObsoleteEpisodeDetector._extract_anime_episodes_from_plot
extract_anime_episodes_from_plot(plot_text) ==
    IF plot_text = NoneStr \/ Len(plot_text) = 0 THEN <<>>
    ELSE Bind(FirstPos(plot_text, 1,
                  LAMBDA k : episodes_pattern_at(plot_text, k)[1] # 0),
              LAMBDA i :
                  IF i = 0 THEN <<>>
                  ELSE SortedSeq(number_list_set(
                           group_text(plot_text,
                                      episodes_pattern_at(plot_text, i)))))

\* ObsoleteEpisodeDetector.is_one_pace_episode, on the content of the .nfo
is_one_pace_episode(nfo) ==
    /\ nfo.xml = "ok"
    /\ nfo.plot # NoneStr
    /\ Len(nfo.plot) > 0
    /\ \E i \in 1..Len(nfo.plot) : marker_at(nfo.plot, i) # 0
(***************************************************************************)
(* detect_obsolete.py: parse_episode_from_filename                         *)
(***************************************************************************)
\* the season the fallback numbering is filed under (Wano)
WanoSeason ==
    35

\* the fallback numbering is accepted between these two numbers
HighRangeFirst ==
    1000

HighRangeLast ==
    1200

\* \d{4,} needs this many digits
HighRangeDigits ==
    4

\* seasons.json as the detector loads it: arc name -> season, in file order
seasons ==
    << [arc |-> <<"A", "l", "a", "b", "a", "s", "t", "a">>, no |-> 12],
       [arc |-> <<"S", "p", "e", "c", "i", "a", "l", "s">>, no |-> 0],
       [arc |-> <<"W", "a", "n", "o">>, no |-> WanoSeason] >>

\* no Episode (Python's None)
NoEpisode ==
    [ok |-> FALSE]

\* r'\.(?:mkv|mp4)' under re.IGNORECASE at position k
dot_ext_at(fn, k) ==
    /\ At(fn, k) = "."
    /\ (LitCI(fn, k + 1, S_mkv) # 0 \/ LitCI(fn, k + 1, S_mp4) # 0)

\* r'One Pace\s*-\s*S(\d+)E(\d+)\s*-\s*' under re.IGNORECASE at position i:
\* the season, the episode and the position after the match
plex_head_at(fn, i) ==
    Bind(LitCI(fn, i, S_OnePace), LAMBDA p1 :
    Bind(IF p1 = 0 THEN 0 ELSE Lit(fn, SkipSpaces(fn, p1), <<"-">>), LAMBDA p2 :
    Bind(IF p2 = 0 THEN 0 ELSE LitCI(fn, SkipSpaces(fn, p2), <<"S">>), LAMBDA p3 :
    Bind(IF p3 = 0 THEN 0 ELSE DigitsEnd(fn, p3), LAMBDA p4 :
    Bind(IF p4 = 0 THEN 0 ELSE LitCI(fn, p4, <<"E">>), LAMBDA p5 :
    Bind(IF p5 = 0 THEN 0 ELSE DigitsEnd(fn, p5), LAMBDA p6 :
    Bind(IF p6 = 0 THEN 0 ELSE Lit(fn, SkipSpaces(fn, p6), <<"-">>), LAMBDA p7 :
        IF p7 = 0 THEN [ok |-> FALSE]
        ELSE [ok |-> TRUE,
              season |-> DigitsToInt(Slice(fn, p3, p4 - 1)),
              episode |-> DigitsToInt(Slice(fn, p5, p6 - 1)),
              after_dash |-> p7,
              next |-> SkipSpaces(fn, p7)])))))))

\* r'(.*?)\.(?:mkv|mp4)' after the head h: the position of the first
\* extension at or after the end of the head, 0 when none
plex_tail_at(fn, h) ==
    IF h.ok THEN FirstPos(fn, h.next, LAMBDA k : dot_ext_at(fn, k)) ELSE 0

\* plex_pattern of parse_episode_from_filename (re.search, no end anchor):
\* the lazy title runs to the first extension
detect_plex_match(fn) ==
    Bind(FirstPos(fn, 1, LAMBDA j : plex_tail_at(fn, plex_head_at(fn, j)) # 0),
         LAMBDA i :
             IF i = 0 THEN [ok |-> FALSE]
             ELSE Bind(plex_head_at(fn, i), LAMBDA h :
                  [ok |-> TRUE, season |-> h.season, episode |-> h.episode,
                   title |-> Strip(Slice(fn, h.next,
                                         plex_tail_at(fn, h) - 1))]))

\* original_pattern r'\[One Pace\].*?(\d+)(?:\s+Extended)?' (case-sensitive):
\* group 1 is the first run of digits after the first "[One Pace]"
detect_original_match(fn) ==
    Bind(FirstPos(fn, 1, LAMBDA k : Lit(fn, k, S_BrOnePace) # 0), LAMBDA i :
    Bind(IF i = 0 THEN 0
         ELSE FirstPos(fn, i + Len(S_BrOnePace), LAMBDA k : IsDigit(At(fn, k))),
         LAMBDA d :
             IF d = 0 THEN [ok |-> FALSE]
             ELSE [ok |-> TRUE,
                   episode_num |->
                       DigitsToInt(Slice(fn, d, DigitsEnd(fn, d) - 1))]))

\* arc_name.lower() in filename.lower(), for the j-th arc of seasons
arc_in_filename(j, lfn) ==
    j <= Len(seasons) /\ Contains(lfn, LowerStr(seasons[j].arc))

\* the loop over self.seasons.items(): the first arc whose lower-cased name
\* occurs in the lower-cased filename, NoneInt when there is none
season_from_arc_in_filename(fn) ==
    Bind(FirstPos(seasons, 1, LAMBDA j : arc_in_filename(j, LowerStr(fn))),
         LAMBDA k : IF k = 0 THEN NoneInt ELSE seasons[k].no)

\* a run of at least four digits at position p: the position after it, else 0
high_digits_end(fn, p) ==
    Bind(DigitsEnd(fn, p),
         LAMBDA e : IF e # 0 /\ e - p >= HighRangeDigits THEN e ELSE 0)

\* r'One\s+Piece' under re.IGNORECASE, "One" ending before position o
one_piece_at(fn, o) ==
    IF o # 0 /\ IsSpace(At(fn, o))
    THEN LitCI(fn, SkipSpaces(fn, o), S_Piece)
    ELSE 0

\* the word of original_op_patterns[n]: Episode, One Piece, OP
original_op_word_at(n, fn, i) ==
    CASE n = 1 -> LitCI(fn, i, S_Episode)
      [] n = 2 -> one_piece_at(fn, LitCI(fn, i, S_One))
      [] OTHER -> LitCI(fn, i, S_OP)

\* original_op_patterns[n] under re.IGNORECASE at position i:
\* <<first digit, position after the digits>>, <<0, 0>> when no match at i
original_op_pattern_at(n, fn, i) ==
    Bind(original_op_word_at(n, fn, i), LAMBDA w :
    Bind(IF w = 0 THEN 0
         ELSE IF n = 3 THEN SkipSpaces(fn, w)
         ELSE IF IsSpace(At(fn, w)) THEN SkipSpaces(fn, w)
         ELSE 0, LAMBDA d :
    Bind(IF d = 0 THEN 0 ELSE high_digits_end(fn, d), LAMBDA e :
        IF e = 0 THEN <<0, 0>> ELSE <<d, e>>)))

\* re.search(original_op_patterns[n], filename): the number of the leftmost
\* match, NoneInt when the pattern does not occur
original_op_number(n, fn) ==
    Bind(FirstPos(fn, 1, LAMBDA k : original_op_pattern_at(n, fn, k)[1] # 0),
         LAMBDA i :
             IF i = 0 THEN NoneInt
             ELSE Bind(original_op_pattern_at(n, fn, i),
                       LAMBDA g : DigitsToInt(Slice(fn, g[1], g[2] - 1))))

\* the loop over original_op_patterns: the first pattern that matches with a
\* number in the high range decides
RECURSIVE original_op_episode(_, _)
original_op_episode(n, fn) ==
    IF n > 3 THEN NoneInt
    ELSE Bind(original_op_number(n, fn), LAMBDA num :
             IF num # NoneInt /\ HighRangeFirst <= num /\ num <= HighRangeLast
             THEN num
             ELSE original_op_episode(n + 1, fn))

\* ObsoleteEpisodeDetector.parse_episode_from_filename
parse_episode_from_filename(fn) ==
    Bind(detect_plex_match(fn), LAMBDA plex :
    IF plex.ok
    THEN [ok |-> TRUE, season |-> plex.season, episode |-> plex.episode,
          is_extended |-> Contains(plex.title, S_Extended)
                          \/ Contains(plex.title, S_Alternate),
          title |-> plex.title]
    ELSE Bind(detect_original_match(fn), LAMBDA orig :
         Bind(season_from_arc_in_filename(fn), LAMBDA season :
         IF orig.ok /\ season # NoneInt /\ season # 0
         THEN [ok |-> TRUE, season |-> season, episode |-> orig.episode_num,
               is_extended |-> Contains(LowerStr(fn), S_extended),
               title |-> NoneStr]
         ELSE Bind(original_op_episode(1, fn), LAMBDA op :
              IF op # NoneInt
              THEN [ok |-> TRUE, season |-> WanoSeason, episode |-> op,
                    is_extended |-> FALSE, title |-> fn]
              ELSE NoEpisode))))

(***************************************************************************)
(* detect_obsolete.py: the library tree                                    *)
(***************************************************************************)
\* the most files a library of the model holds
MaxFiles ==
    3

D_lib ==
    <<"l", "i", "b">>

D_github ==
    <<".", "g", "i", "t", "h", "u", "b">>

N_Plex5 ==
    <<"O", "n", "e", " ", "P", "a", "c", "e", " ", "-", " ", "S", "0", "1", "E", "0", "5", " ", "-", " ", "A", "b", ".", "m", "k", "v">>

N_Special ==
    <<"O", "n", "e", " ", "P", "a", "c", "e", " ", "-", " ", "S", "0", "0", "E", "0", "1", " ", "-", " ", "A", "b", ".", "m", "k", "v">>

N_Legacy ==
    <<"[", "O", "n", "e", " ", "P", "a", "c", "e", "]", "[", "4", "-", "7", "]", " ", "A", "l", "a", "b", "a", "s", "t", "a", " ", "0", "5", ".", "m", "k", "v">>

N_Bare1010 ==
    <<"E", "p", "i", "s", "o", "d", "e", " ", "1", "0", "1", "0", ".", "m", "k", "v">>

N_Notes ==
    <<"n", "o", "t", "e", "s", ".", "m", "p", "4">>

N_OrphanNfo ==
    <<"O", "n", "e", " ", "P", "a", "c", "e", " ", "-", " ", "S", "0", "2", "E", "0", "1", " ", "-", " ", "C", "d", ".", "n", "f", "o">>

T_Covers4to6 ==
    <<"A", "n", "i", "m", "e", " ", "E", "p", "i", "s", "o", "d", "e", "(", "s", ")", ":", " ", "4", "-", "6">>

T_Covers1010 ==
    <<"e", "p", "i", "s", "o", "d", "e", "s", ":", " ", "1", "0", "1", "0", ",", " ", "1", "0", "1", "1">>

T_ChaptersOnly ==
    <<"M", "a", "n", "g", "a", " ", "C", "h", "a", "p", "t", "e", "r", "(", "s", ")", ":", " ", "1", "-", "3">>

\* a path: the directories from the library root down, and the file name
LibPath(dir, name) ==
    [dir |-> dir, name |-> name]

\* str(path): the components joined by "/"
RECURSIVE path_str_dirs(_)
path_str_dirs(dir) ==
    IF Len(dir) = 0 THEN <<>>
    ELSE Head(dir) \o <<"/">> \o path_str_dirs(Tail(dir))

path_str(p) ==
    path_str_dirs(p.dir) \o p.name

\* the position of the last "." of a name, 0 when it has no suffix
last_dot(name) ==
    IF \E k \in 2..Len(name) : name[k] = "."
    THEN CHOOSE k \in 2..Len(name) :
             name[k] = "." /\ \A j \in (k + 1)..Len(name) : name[j] # "."
    ELSE 0

\* Path.with_suffix('.nfo')
with_suffix_nfo(p) ==
    Bind(last_dot(p.name), LAMBDA d :
        LibPath(p.dir, (IF d = 0 THEN p.name ELSE Slice(p.name, 1, d - 1))
                       \o S_DotNfo))

\* str.endswith
EndsWith(s, suffix) ==
    Len(s) >= Len(suffix) /\ Lit(s, Len(s) - Len(suffix) + 1, suffix) # 0

\* rglob("*.mkv") + rglob("*.mp4") over a tree
video_files(tree) ==
    {p \in DOMAIN tree : EndsWith(p.name, S_DotMkv) \/ EndsWith(p.name, S_DotMp4)}

\* rglob("*.nfo") over a tree
nfo_files(tree) ==
    {p \in DOMAIN tree : EndsWith(p.name, S_DotNfo)}

\* the content of a video file
VideoBody ==
    [kind |-> "video"]

\* the content of an .nfo file: whether ET.parse accepts it, and the text of
\* its <plot> element (NoneStr: no element, or an element without text)
NfoBody(xml, plot) ==
    [kind |-> "nfo", xml |-> xml, plot |-> plot]

NfoBodies ==
    { NfoBody("ok", T_Covers4to6), NfoBody("ok", T_Covers1010),
      NfoBody("ok", T_ChaptersOnly), NfoBody("ok", NoneStr),
      NfoBody("broken", NoneStr) }

LibDir ==
    <<D_lib>>

GitDir ==
    <<D_lib, S_DotGit>>

GithubDir ==
    <<D_lib, D_github>>

\* the video files a library of the model may hold
VideoPool ==
    { LibPath(LibDir, N_Plex5), LibPath(GitDir, N_Plex5),
      LibPath(GithubDir, N_Plex5), LibPath(LibDir, N_Special),
      LibPath(LibDir, N_Legacy), LibPath(LibDir, N_Bare1010),
      LibPath(LibDir, N_Notes) }

\* the .nfo files a library of the model may hold
NfoPool ==
    { with_suffix_nfo(LibPath(LibDir, N_Plex5)),
      with_suffix_nfo(LibPath(LibDir, N_Legacy)),
      with_suffix_nfo(LibPath(LibDir, N_Bare1010)),
      LibPath(LibDir, N_OrphanNfo) }

\* the files a library may hold, each with its content
FilePool ==
    {[path |-> p, body |-> VideoBody] : p \in VideoPool}
    \cup {[path |-> p, body |-> b] : p \in NfoPool, b \in NfoBodies}
    \cup {[path |-> LibPath(LibDir, S_SeasonNfo),
           body |-> NfoBody("ok", T_Covers1010)]}

\* the subsets of S of at most n elements
RECURSIVE SubsetsUpTo(_, _)
SubsetsUpTo(S, n) ==
    IF n = 0 THEN {{}}
    ELSE Bind(SubsetsUpTo(S, n - 1),
              LAMBDA prev : prev \cup {T \cup {x} : T \in prev, x \in S})

\* the library trees of the model: at most MaxFiles files, one per path
Trees ==
    {[p \in {x.path : x \in F} |-> (CHOOSE x \in F : x.path = p).body] :
        F \in {G \in SubsetsUpTo(FilePool, MaxFiles) :
                   \A x, y \in G : x.path = y.path => x = y}}

(***************************************************************************)
(* The programs run one at a time: the state of a program that is not      *)
(* running                                                                 *)
(***************************************************************************)
\* ScanResults()
EmptyResults ==
    [valid_one_pace |-> <<>>, obsolete_original |-> <<>>, missing_nfo |-> <<>>]

\* no library is being scanned
ScanIdle ==
    /\ fs = <<>>
    /\ covered = {}
    /\ todoNfo = {}
    /\ todoVid = {}
    /\ results = EmptyResults
    /\ spc = "idle"

\* nothing is being formatted or parsed
RangesIdle ==
    /\ numbers = <<>>
    /\ range_text = <<>>
    /\ parsed = <<>>
    /\ extracted = <<>>
    /\ fpc = "idle"

\* no file is being named or parsed
ParseIdle ==
    /\ given = <<>>
    /\ fname = <<>>
    /\ media = <<>>
    /\ ppc = "idle"


\* update_repository_nfos: the counters before the first file
NoCounts ==
    [updated |-> 0, unchanged |-> 0, skipped |-> 0, failed |-> 0]

\* neither the rename script nor the repository update is running
RenameIdle ==
    /\ args = <<>>
    /\ repo = <<>>
    /\ lib = <<>>
    /\ nfo_data_lookup = <<>>
    /\ todo = {}
    /\ pending = <<>>
    /\ without_nfo = <<>>
    /\ counts = NoCounts
    /\ renames = {}
    /\ asked = {}
    /\ rpc = "idle"

\* no title is being sanitized or matched
TitleIdle ==
    /\ raw_title = <<>>
    /\ sanitized = <<>>
    /\ resanitized = <<>>
    /\ normalized = <<>>
    /\ renormalized = <<>>
    /\ str1 = <<>>
    /\ str2 = <<>>
    /\ threshold = 0
    /\ similar = <<>>
    /\ tpc = "idle"

\* what process_episode did when no episode has been processed
NoLast ==
    [called |-> FALSE]

\* the import tool is not running
ImportIdle ==
    /\ config = <<>>
    /\ disk = <<>>
    /\ attempts = 0
    /\ fetched = <<>>
    /\ continue_answer = "None"
    /\ title_source_preference = "None"
    /\ date_cache = <<>>
    /\ date_inputs = <<>>
    /\ video_queue = <<>>
    /\ last = NoLast
    /\ ipc = "idle"

\* no functions are being called side by side
CallIdle ==
    /\ subject = <<>>
    /\ returned = <<>>
    /\ cpc = "idle"
(***************************************************************************)
(* detect_obsolete.py: ObsoleteEpisodeDetector                             *)
(***************************************************************************)
\* parse_episode_from_filename over the names of the model, computed once
ParsedNames ==
    [n \in {p.name : p \in VideoPool} |-> parse_episode_from_filename(n)]

\* is_one_pace_episode over the .nfo contents of the model, computed once
OnePaceBodies ==
    {b \in NfoBodies : is_one_pace_episode(b)}

\* the numbers _extract_anime_episodes_from_plot reads from each content
ExtractedNumbers ==
    [b \in NfoBodies |-> Range(extract_anime_episodes_from_plot(b.plot))]

\* what one .nfo file adds to the index in _build_covered_episodes_index
index_contribution(tree, n) ==
    IF n.name \in {S_SeasonNfo, S_TvshowNfo} THEN {}
    ELSE IF tree[n] \in OnePaceBodies THEN ExtractedNumbers[tree[n]]
    ELSE {}

\* a variant of covered_update that keeps the last record's numbers only
covered_update_overwrite(index, anime_episodes) ==
    IF anime_episodes = {} THEN index ELSE anime_episodes

\* covered.update(anime_episodes)
covered_update(index, anime_episodes) ==
    index \cup anime_episodes

\* ".git" in str(video_file)
in_git_path(p) ==
    Contains(path_str(p), S_DotGit)

\* the video paths of the model for which ".git" in str(video_file) holds
GitPaths ==
    {p \in VideoPool : in_git_path(p)}

\* a variant of classify that skips the index test for a file whose sidecar
\* lacks the marker
classify_sidecar_never_obsolete(tree, index, v) ==
    Bind(ParsedNames[v.name], LAMBDA ep :
    Bind(with_suffix_nfo(v), LAMBDA nfo_path :
        IF v \in GitPaths THEN "skip"
        ELSE IF ~ep.ok THEN "skip"
        ELSE IF ep.season = 0 THEN "skip"
        ELSE IF nfo_path \in DOMAIN tree
        THEN IF tree[nfo_path] \in OnePaceBodies THEN "valid_one_pace"
             ELSE "missing_nfo"
        ELSE IF ep.episode \in index THEN "obsolete_original"
        ELSE "missing_nfo"))

\* a variant of classify that tests the index before the sidecar
classify_index_first(tree, index, v) ==
    Bind(ParsedNames[v.name], LAMBDA ep :
    Bind(with_suffix_nfo(v), LAMBDA nfo_path :
        IF v \in GitPaths THEN "skip"
        ELSE IF ~ep.ok THEN "skip"
        ELSE IF ep.season = 0 THEN "skip"
        ELSE IF ep.episode \in index THEN "obsolete_original"
        ELSE IF nfo_path \in DOMAIN tree /\ tree[nfo_path] \in OnePaceBodies
        THEN "valid_one_pace"
        ELSE "missing_nfo"))

\* the list scan_library appends the episode of video file v to:
\* "skip" when the loop continues without appending
classify(tree, index, v) ==
    Bind(ParsedNames[v.name], LAMBDA ep :
    Bind(with_suffix_nfo(v), LAMBDA nfo_path :
        IF v \in GitPaths THEN "skip"
        ELSE IF ~ep.ok THEN "skip"
        ELSE IF ep.season = 0 THEN "skip"
        ELSE IF nfo_path \in DOMAIN tree
        THEN IF tree[nfo_path] \in OnePaceBodies THEN "valid_one_pace"
             ELSE IF ep.episode \in index THEN "obsolete_original"
             ELSE "missing_nfo"
        ELSE IF ep.episode \in index THEN "obsolete_original"
        ELSE "missing_nfo"))

\* the Episode scan_library appends for video file v
scanned_episode(tree, v) ==
    Bind(ParsedNames[v.name], LAMBDA ep :
    Bind(with_suffix_nfo(v), LAMBDA nfo_path :
    Bind(nfo_path \in DOMAIN tree, LAMBDA has_nfo :
        [season |-> ep.season, episode |-> ep.episode, filepath |-> v,
         nfo_path |-> IF has_nfo THEN nfo_path ELSE LibPath(<<>>, NoneStr),
         is_extended |-> ep.is_extended, title |-> ep.title,
         has_anime_episodes |->
             has_nfo /\ tree[nfo_path] \in OnePaceBodies])))

\* results.<list>.append(episode), nothing when the loop continues
results_after(res, list, episode) ==
    IF list = "skip" THEN res
    ELSE [res EXCEPT ![list] = Append(@, episode)]

\* ObsoleteEpisodeDetector.__init__: the index is empty and every .nfo file
\* of the library waits to be read
DetectorInit ==
    /\ fs \in Trees
    /\ covered = {}
    /\ todoNfo = nfo_files(fs)
    /\ todoVid = {}
    /\ results = EmptyResults
    /\ spc = "build"

\* one iteration of the loop of _build_covered_episodes_index; rglob yields
\* the files in an order the file system decides
build_covered_episodes_index_step ==
    /\ spc = "build"
    /\ \E n \in todoNfo :
          /\ covered' = covered_update(covered, index_contribution(fs, n))
          /\ todoNfo' = todoNfo \ {n}
    /\ UNCHANGED <<fs, todoVid, results, spc, otherThanScan>>

\* the index is built; scan_library starts with empty results and the list
\* of video files
scan_library_begin ==
    /\ spc = "build"
    /\ todoNfo = {}
    /\ spc' = "scan"
    /\ results' = EmptyResults
    /\ todoVid' = video_files(fs)
    /\ UNCHANGED <<fs, covered, todoNfo, otherThanScan>>

\* one iteration of the loop of scan_library
scan_library_step ==
    /\ spc = "scan"
    /\ \E v \in todoVid :
          /\ results' = results_after(results, classify(fs, covered, v),
                                       scanned_episode(fs, v))
          /\ todoVid' = todoVid \ {v}
    /\ UNCHANGED <<fs, covered, todoNfo, spc, otherThanScan>>

\* scan_library returns its results
scan_library_return ==
    /\ spc = "scan"
    /\ todoVid = {}
    /\ spc' = "done"
    /\ UNCHANGED <<fs, covered, todoNfo, todoVid, results, otherThanScan>>

ScanNext ==
    \/ build_covered_episodes_index_step
    \/ scan_library_begin
    \/ scan_library_step
    \/ scan_library_return

\* the classifier runs alone
ScanInit ==
    DetectorInit /\ RangesIdle /\ ParseIdle /\ RenameIdle /\ TitleIdle
    /\ ImportIdle
    /\ CallIdle

SpecScan ==
    ScanInit /\ [][ScanNext]_vars

(***************************************************************************)
(* Properties of the classifier (SpecScan)                                 *)
(***************************************************************************)
S_episodesColon ==
    <<"e", "p", "i", "s", "o", "d", "e", "s", ":">>

S_episodeSColon ==
    <<"e", "p", "i", "s", "o", "d", "e", "(", "s", ")", ":">>

\* video file v is an entry of the list
InList(list, v) ==
    \E k \in 1..Len(list) : list[k].filepath = v

\* how many entries of the three lists are video file v
ListCount(v) ==
    Cardinality({k \in 1..Len(results.valid_one_pace) :
                    results.valid_one_pace[k].filepath = v})
    + Cardinality({k \in 1..Len(results.obsolete_original) :
                    results.obsolete_original[k].filepath = v})
    + Cardinality({k \in 1..Len(results.missing_nfo) :
                    results.missing_nfo[k].filepath = v})

\* the path has a directory named ".git"
UnderVcsDirectory(p) ==
    \E k \in 1..Len(p.dir) : p.dir[k] = S_DotGit

\* the file parses to an identity of a season other than 0
HasIdentity(v) ==
    ParsedNames[v.name].ok /\ ParsedNames[v.name].season # 0

\* the files scan_library classifies: an identity, and not passed over for
\* its path
Classified(v) ==
    HasIdentity(v) /\ v \notin GitPaths

\* the plot text carries the marker as the docstring of is_one_pace_episode
\* spells it ("Episodes:", "Episode(s):", any case)
HasCoverageMarker(body) ==
    /\ body.xml = "ok"
    /\ body.plot # NoneStr
    /\ \/ Contains(LowerStr(body.plot), S_episodesColon)
       \/ Contains(LowerStr(body.plot), S_episodeSColon)

\* video file v has a sidecar alongside it that carries the marker
HasValidSidecar(v) ==
    /\ with_suffix_nfo(v) \in DOMAIN fs
    /\ HasCoverageMarker(fs[with_suffix_nfo(v)])

\* the number of the bare-numbering fallback pattern in the name of a file
\* that has no One-Pace identity in its name, NoneInt otherwise
OriginalSourceNumber(fn) ==
    IF detect_plex_match(fn).ok THEN NoneInt
    ELSE IF detect_original_match(fn).ok
            /\ season_from_arc_in_filename(fn) \notin {NoneInt, 0}
    THEN NoneInt
    ELSE original_op_episode(1, fn)

OriginalSourceNumbers ==
    [n \in {p.name : p \in VideoPool} |-> OriginalSourceNumber(n)]

\* file v, with original-source number n (NoneInt when its name carries
\* none) and parsed number tested, is in the list the index test gives
IndexTestDecides(v, n, tested) ==
    /\ (n # NoneInt /\ n \in covered) =>
           /\ InList(results.obsolete_original, v)
           /\ ~InList(results.missing_nfo, v)
    /\ (n # NoneInt /\ n \notin covered) => InList(results.missing_nfo, v)
    /\ InList(results.obsolete_original, v) <=> tested \in covered
    /\ InList(results.missing_nfo, v) <=> tested \notin covered

\* C1: after scan_library, every video file that parses to an identity, has
\* season # 0 and lies under no ".git" directory is in exactly one of the
\* three lists, and every other video file is in none.
C1_ExactlyOneCategory ==
    spc = "done" =>
        \A v \in video_files(fs) :
            ListCount(v) = (IF HasIdentity(v) /\ ~UnderVcsDirectory(v)
                            THEN 1 ELSE 0)

\* C2: after scan_library, a classified file without a valid sidecar that
\* carries an original-source number is in obsolete_original and not in
\* missing_nfo when the number is in the index, and in missing_nfo when it is
\* not; and for every classified file without a valid sidecar the list is
\* decided by the index test alone, whether the sidecar is absent or lacks
\* the marker.
C2_IndexTestDecides ==
    spc = "done" =>
        \A v \in video_files(fs) :
            (Classified(v) /\ ~HasValidSidecar(v)) =>
                /\ IndexTestDecides(v, OriginalSourceNumbers[v.name],
                                    ParsedNames[v.name].episode)

\* C2 witness: a file with an original-source number in the index and a
\* sidecar that lacks the marker has been placed in obsolete_original.
C2_Witness ==
    /\ spc = "done"
    /\ \E v \in video_files(fs) :
          /\ OriginalSourceNumbers[v.name] # NoneInt
          /\ OriginalSourceNumbers[v.name] \in covered
          /\ with_suffix_nfo(v) \in DOMAIN fs
          /\ ~HasValidSidecar(v)
          /\ InList(results.obsolete_original, v)

\* C3: after scan_library, no file of obsolete_original is one whose name
\* carries a One-Pace identity only (Plex-style or legacy bracket-style, no
\* original-source number).
C3_OnePaceNumberNeverTested ==
    spc = "done" =>
        \A k \in 1..Len(results.obsolete_original) :
            OriginalSourceNumbers[results.obsolete_original[k].filepath.name]
                # NoneInt

\* C4: after scan_library, a classified file with a sidecar that carries the
\* marker is in valid_one_pace and in no other list, and every entry of
\* valid_one_pace has such a sidecar.
C4_MarkerSidecarIsValid ==
    spc = "done" =>
        /\ \A v \in video_files(fs) :
              (Classified(v) /\ HasValidSidecar(v)) =>
                  /\ InList(results.valid_one_pace, v)
                  /\ ~InList(results.obsolete_original, v)
                  /\ ~InList(results.missing_nfo, v)
        /\ \A k \in 1..Len(results.valid_one_pace) :
              HasValidSidecar(results.valid_one_pace[k].filepath)

\* C4 witness: a file whose episode number is in the index is in
\* valid_one_pace because of its sidecar.
C4_Witness ==
    /\ spc = "done"
    /\ \E k \in 1..Len(results.valid_one_pace) :
          /\ results.valid_one_pace[k].episode \in covered
          /\ HasValidSidecar(results.valid_one_pace[k].filepath)

\* the canonical records of a tree: the episode .nfo files with the marker
CanonicalRecords(tree) ==
    {n \in nfo_files(tree) :
        /\ n.name \notin {S_SeasonNfo, S_TvshowNfo}
        /\ HasCoverageMarker(tree[n])}

\* the union of the numbers the canonical records refer to
CoverageUnion(tree) ==
    UNION {ExtractedNumbers[tree[n]] : n \in CanonicalRecords(tree)}

\* C5: once built, the index is the union of the numbers of the canonical
\* records, whatever the order the records were read in, and scan_library
\* never changes it.
C5_IndexIsUnion ==
    /\ [](spc \in {"scan", "done"} => covered = CoverageUnion(fs))
    /\ [][(spc \in {"scan", "done"}) => (covered' = covered)]_vars

\* C5 witness: the index holds the numbers of two canonical records.
C5_Witness ==
    /\ spc = "done"
    /\ Cardinality(CanonicalRecords(fs)) >= 2
    /\ \E m, n \in CanonicalRecords(fs) :
          /\ ExtractedNumbers[fs[m]] # ExtractedNumbers[fs[n]]
          /\ ExtractedNumbers[fs[m]] \cup ExtractedNumbers[fs[n]] \subseteq covered

(***************************************************************************)
(* import_episode.py: range formatting and parsing                         *)
(***************************************************************************)
\* the numbers 1..MaxNum may be given to _format_ranges
MaxNum ==
    7

\* numbers of two and three digits that may be given as well
HighNumbers ==
    {9, 10, 11, 99, 100}

NumberPool ==
    (1..MaxNum) \cup HighNumbers

S_CommaSpace ==
    <<",", " ">>

S_AnimeEpisodesPrefix ==
    <<"A", "n", "i", "m", "e", " ", "E", "p", "i", "s", "o", "d", "e", "(", "s", ")", ":", " ">>

T_Example4to11 ==
    <<"4", "-", "6", ",", " ", "9", "-", "1", "1">>

\* str(n) of an int that is not negative
RECURSIVE IntToStr(_)
IntToStr(n) ==
    IF n < 10 THEN <<Digits[n + 1]>>
    ELSE IntToStr(n \div 10) \o <<Digits[(n % 10) + 1]>>

\* sep.join(strs)
RECURSIVE Join(_, _)
Join(strs, sep) ==
    IF Len(strs) = 0 THEN <<>>
    ELSE IF Len(strs) = 1 THEN strs[1]
    ELSE strs[1] \o sep \o Join(Tail(strs), sep)

\* groupby(enumerate(xs), lambda i_x: i_x[1] - i_x[0]): the last index of
\* the group that starts at index i, having reached index j
RECURSIVE group_end(_, _, _)
group_end(xs, i, j) ==
    IF j < Len(xs) /\ xs[j + 1] - (j + 1) = xs[i] - i
    THEN group_end(xs, i, j + 1)
    ELSE j

\* f"{group[0]}-{group[-1]}" if len(group) > 1 else str(group[0])
range_item(group) ==
    IF Len(group) > 1
    THEN IntToStr(group[1]) \o <<"-">> \o IntToStr(group[Len(group)])
    ELSE IntToStr(group[1])

\* the list  ranges  of _format_ranges, for the groups from index i on
RECURSIVE format_groups(_, _)
format_groups(xs, i) ==
    IF i > Len(xs) THEN <<>>
    ELSE Bind(group_end(xs, i, i), LAMBDA j :
             <<range_item(SubSeq(xs, i, j))>> \o format_groups(xs, j + 1))

\* EpisodeData._format_ranges
format_ranges(nums) ==
    IF Len(nums) = 0 THEN <<>>
    ELSE Join(format_groups(SortedSeq(Range(nums)), 1), S_CommaSpace)

\* the numbers of the parts of a split list, each part as it stands
unstripped_parts_numbers(parts) ==
    UNION {part_numbers(parts[k]) : k \in 1..Len(parts)}

\* DataSourceManager._parse_number_list
parse_number_list(s) ==
    IF Len(s) = 0 THEN <<>>
    ELSE SortedSeq(unstripped_parts_numbers(Split(s, ",")))

\* the line of the plot that names the anime episodes
anime_episodes_line(anime_range) ==
    S_AnimeEpisodesPrefix \o anime_range

\* a list in ascending order
Ascending(S) ==
    SortedSeq(S)

\* a list in descending order
Descending(S) ==
    Bind(SortedSeq(S), LAMBDA xs : [k \in 1..Len(xs) |-> xs[Len(xs) + 1 - k]])

\* a list that was not returned yet
Unset ==
    <<NoneInt>>

\* a list of numbers is given to _format_ranges: in order, or out of order
\* with every number twice
RangesInit ==
    /\ \E S \in SUBSET NumberPool :
          numbers \in {Ascending(S), Descending(S) \o Ascending(S)}
    /\ range_text = NoneStr
    /\ parsed = Unset
    /\ extracted = Unset
    /\ fpc = "format"

\* _format_ranges(numbers)
format_ranges_call ==
    /\ fpc = "format"
    /\ range_text' = format_ranges(numbers)
    /\ fpc' = "parse"
    /\ UNCHANGED <<numbers, parsed, extracted, otherThanRanges>>

\* _parse_number_list(range_text)
parse_number_list_call ==
    /\ fpc = "parse"
    /\ parsed = Unset
    /\ parsed' = parse_number_list(range_text)
    /\ UNCHANGED <<numbers, range_text, extracted, fpc, otherThanRanges>>

\* _extract_anime_episodes_from_plot("Anime Episode(s): " + range_text)
extract_anime_episodes_call ==
    /\ fpc = "parse"
    /\ extracted = Unset
    /\ extracted' =
           extract_anime_episodes_from_plot(anime_episodes_line(range_text))
    /\ UNCHANGED <<numbers, range_text, parsed, fpc, otherThanRanges>>

\* both parsers have returned
ranges_done ==
    /\ fpc = "parse"
    /\ parsed # Unset
    /\ extracted # Unset
    /\ fpc' = "done"
    /\ UNCHANGED <<numbers, range_text, parsed, extracted, otherThanRanges>>

RangesNext ==
    \/ format_ranges_call
    \/ parse_number_list_call
    \/ extract_anime_episodes_call
    \/ ranges_done

\* the formatting and parsing run alone
RangesStart ==
    RangesInit /\ ScanIdle /\ ParseIdle /\ RenameIdle /\ TitleIdle
    /\ ImportIdle
    /\ CallIdle

SpecRanges ==
    RangesStart /\ [][RangesNext]_vars

(***************************************************************************)
(* Properties of the range formatting (SpecRanges)                         *)
(***************************************************************************)
\* the maximal runs of consecutive integers of a set, as <<first, last>>
MaximalRuns(S) ==
    {r \in S \X S : /\ r[1] <= r[2]
                    /\ \A n \in r[1]..r[2] : n \in S
                    /\ (r[1] - 1) \notin S
                    /\ (r[2] + 1) \notin S}

\* a run of length >= 2 as "start-end", a singleton bare
RenderRun(r) ==
    IF r[2] > r[1] THEN IntToStr(r[1]) \o <<"-">> \o IntToStr(r[2])
    ELSE IntToStr(r[1])

\* the runs in ascending order, joined by ", "
RECURSIVE RenderRuns(_)
RenderRuns(R) ==
    IF R = {} THEN <<>>
    ELSE Bind(CHOOSE r \in R : \A q \in R : r[1] <= q[1], LAMBDA r :
             IF R = {r} THEN RenderRun(r)
             ELSE RenderRun(r) \o <<",", " ">> \o RenderRuns(R \ {r}))

\* the list holds exactly the numbers of S, in ascending order
IsSortedListOf(list, S) ==
    /\ Range(list) = S
    /\ Len(list) = Cardinality(S)
    /\ \A k \in 1..(Len(list) - 1) : list[k] < list[k + 1]

\* C6: for every set S of positive integers, the string _format_ranges gives
\* for S renders each maximal run of length >= 2 as "start-end" and each
\* singleton bare, joined by ", ", and both _parse_number_list of that string
\* and _extract_anime_episodes_from_plot of "Anime Episode(s): " followed by
\* that string return exactly S.
C6_FormatIsLeftInverseOfParse ==
    /\ fpc \in {"parse", "done"} =>
           range_text = RenderRuns(MaximalRuns(Range(numbers)))
    /\ (fpc \in {"parse", "done"} /\ parsed # Unset) =>
           IsSortedListOf(parsed, Range(numbers))
    /\ (fpc \in {"parse", "done"} /\ extracted # Unset) =>
           IsSortedListOf(extracted, Range(numbers))

\* C6 witness: {4,5,6,9,10,11}, given out of order and twice, was formatted
\* as "4-6, 9-11" and both parsers returned it.
C6_Witness ==
    /\ fpc = "done"
    /\ Range(numbers) = {4, 5, 6, 9, 10, 11}
    /\ Len(numbers) = 12
    /\ range_text = T_Example4to11
    /\ parsed = <<4, 5, 6, 9, 10, 11>>
    /\ extracted = parsed

(***************************************************************************)
(* dist/rename.py: the legacy file names of get_episode_from_media         *)
(***************************************************************************)
A_Five ==
    <<"B", "a", "r", "a", "t", "i", "e">>

A_Six ==
    <<"A", "r", "l", "o", "n", "g", " ", "P", "a", "r", "k">>

\* seasons.json as the script reads it: arc title -> season number, in the
\* order of the file
rename_seasons ==
    <<[title |-> A_Five, no |-> 5], [title |-> A_Six, no |-> 6]>>

\* regex \w
IsWord(c) ==
    \/ IsDigit(c)
    \/ c = "_"
    \/ \E i \in 1..Len(UpperLetters) : c \in {UpperLetters[i], LowerLetters[i]}

M_LegacyDawn ==
    <<"[", "O", "n", "e", " ", "P", "a", "c", "e", "]", "[", "1", "-", "7", "]", " ", "D", "a", "w", "n", " ", "0", "1", " ", "[", "p", "]", "[", "h", "]", ".", "m", "k", "v">>

S_BrOnePaceBr ==
    <<"[", "O", "n", "e", " ", "P", "a", "c", "e", "]", "[">>

\* r'\s\[(?:.*?)\]\[(?:.*?)\](.mkv|.mp4)' at position p: a dot of the pattern
\* is any character
legacy_tail_at(s, p) ==
    /\ IsSpace(At(s, p))
    /\ At(s, p + 1) = "["
    /\ \E k \in (p + 2)..Len(s) :
           /\ s[k] = "]"
           /\ At(s, k + 1) = "["
           /\ \E m \in (k + 2)..Len(s) :
                  /\ s[m] = "]"
                  /\ m + 4 <= Len(s)
                  /\ (Lit(s, m + 2, S_mkv) # 0 \/ Lit(s, m + 2, S_mp4) # 0)

\* the class [\w\s\(\)-]
InVariantClass(c) ==
    IsWord(c) \/ IsSpace(c) \/ c \in {"(", ")", "-"}

\* r'\s(\w[\w\s\(\)-]+)' at position p, greedy: the last position of the
\* longest group after which the tail matches, 0 when there is none
legacy_variant_end(s, p) ==
    IF \E e \in (p + 2)..Len(s) :
           /\ IsSpace(At(s, p))
           /\ IsWord(At(s, p + 1))
           /\ \A k \in (p + 2)..e : InVariantClass(s[k])
           /\ legacy_tail_at(s, e + 1)
    THEN CHOOSE e \in (p + 2)..Len(s) :
             /\ \A k \in (p + 2)..e : InVariantClass(s[k])
             /\ legacy_tail_at(s, e + 1)
             /\ \A f \in (e + 1)..Len(s) :
                    ~(/\ \A k \in (p + 2)..f : InVariantClass(s[k])
                      /\ legacy_tail_at(s, f + 1))
    ELSE 0

\* what follows the number, from position q: the optional variant is taken
\* when it can be
legacy_rest(s, q) ==
    Bind(legacy_variant_end(s, q), LAMBDA e :
        IF e # 0 THEN [ok |-> TRUE, extended |-> Slice(s, q + 1, e)]
        ELSE IF legacy_tail_at(s, q) THEN [ok |-> TRUE, extended |-> <<>>]
        ELSE [ok |-> FALSE])

\* r'(?:-\d{1,2})?' at position q: the positions after it in the order
\* the search tries them, the range with two digits, with one, and none
legacy_range_ends(s, q) ==
    (IF At(s, q) = "-" /\ IsDigit(At(s, q + 1)) /\ IsDigit(At(s, q + 2))
     THEN <<q + 3>> ELSE <<>>)
    \o (IF At(s, q) = "-" /\ IsDigit(At(s, q + 1)) THEN <<q + 2>> ELSE <<>>)
    \o <<q>>

\* r'(\d{1,2}(?:-\d{1,2})?)' at position n: the positions after it in the
\* order the search tries them, two digits before one
legacy_number_ends(s, n) ==
    (IF IsDigit(At(s, n)) /\ IsDigit(At(s, n + 1))
     THEN legacy_range_ends(s, n + 2) ELSE <<>>)
    \o (IF IsDigit(At(s, n)) THEN legacy_range_ends(s, n + 1) ELSE <<>>)

\* the third group at position n and what follows it: the first of the ends
\* after which the rest matches; number is the text of the group
legacy_number_at(s, n) ==
    Bind(legacy_number_ends(s, n), LAMBDA ends :
    Bind(FirstPos(ends, 1, LAMBDA k :
             k <= Len(ends) /\ legacy_rest(s, ends[k]).ok), LAMBDA k :
        IF k = 0 THEN [ok |-> FALSE]
        ELSE [ok |-> TRUE, number |-> Slice(s, n, ends[k] - 1),
              extended |-> legacy_rest(s, ends[k]).extended]))

\* r'\s(.*?)\s' and the number, from the position a of the "]" that ends the
\* first group: the lazy arc name ends at the first space a number follows
legacy_arc_at(s, a) ==
    IF At(s, a) # "]" \/ ~IsSpace(At(s, a + 1)) THEN [ok |-> FALSE]
    ELSE Bind(FirstPos(s, a + 2, LAMBDA b :
                  IsSpace(At(s, b)) /\ legacy_number_at(s, b + 1).ok),
              LAMBDA b :
                  IF b = 0 THEN [ok |-> FALSE]
                  ELSE [ok |-> TRUE,
                        season_title |-> Slice(s, a + 2, b - 1),
                        number |-> legacy_number_at(s, b + 1).number,
                        extended |-> legacy_number_at(s, b + 1).extended])

\* media_pattern with its head at position i: the lazy first group ends at
\* the first "]" from which the rest matches
legacy_at(s, i) ==
    IF Lit(s, i, S_BrOnePaceBr) = 0 THEN [ok |-> FALSE]
    ELSE Bind(FirstPos(s, i + Len(S_BrOnePaceBr),
                       LAMBDA a : legacy_arc_at(s, a).ok),
              LAMBDA a : IF a = 0 THEN [ok |-> FALSE]
                         ELSE legacy_arc_at(s, a))

\* re.search(media_pattern, filepath.name): the leftmost match
media_legacy_match(fn) ==
    Bind(FirstPos(fn, 1, LAMBDA i : legacy_at(fn, i).ok), LAMBDA i :
        IF i = 0 THEN [ok |-> FALSE] ELSE legacy_at(fn, i))

\* "for key, value in seasons.items(): if key.lower() == season_title.lower()"
\* from entry k: the number of the first arc of that name, None when the loop
\* ends without a break
RECURSIVE season_of_title(_, _)
season_of_title(season_title, k) ==
    IF k > Len(rename_seasons) THEN NoneInt
    ELSE IF LowerStr(rename_seasons[k].title) = LowerStr(season_title)
    THEN rename_seasons[k].no
    ELSE season_of_title(season_title, k + 1)

(***************************************************************************)
(* The patterns for names in brackets that tools/import_episode.py and     *)
(* dist/rename.py both search for                                          *)
(***************************************************************************)
S_PacedOnePiece ==
    <<"P", "a", "c", "e", "d", " ", "O", "n", "e", " ", "P", "i", "e", "c", "e">>

S_Whiskey ==
    <<"W", "h", "i", "s", "k", "e", "y">>

S_Whisky ==
    <<"W", "h", "i", "s", "k", "y">>

S_Arabasta ==
    <<"A", "r", "a", "b", "a", "s", "t", "a">>

\* str.replace(old, new) for an old that is not empty
RECURSIVE replace_text(_, _, _)
replace_text(s, old, new) ==
    IF Len(s) = 0 THEN <<>>
    ELSE IF Lit(s, 1, old) # 0
    THEN new \o replace_text(Slice(s, Len(old) + 1, Len(s)), old, new)
    ELSE <<s[1]>> \o replace_text(Tail(s), old, new)

\* a pattern that takes a single chapter number only, r'\[\d+\]'
chapters_bracket_single(s, p) ==
    Bind(IF At(s, p) = "[" THEN DigitsEnd(s, p + 1) ELSE 0, LAMBDA d :
        IF d # 0 /\ At(s, d) = "]" THEN d + 1 ELSE 0)

\* r'\[\d+(?:-\d+)?\]' at position p: the position after it, 0 when it is
\* not there
chapters_bracket_at(s, p) ==
    Bind(IF At(s, p) = "[" THEN DigitsEnd(s, p + 1) ELSE 0, LAMBDA d :
    Bind(IF d # 0 /\ At(s, d) = "-" /\ DigitsEnd(s, d + 1) # 0
         THEN DigitsEnd(s, d + 1) ELSE d, LAMBDA r :
        IF r # 0 /\ At(s, r) = "]" THEN r + 1 ELSE 0))

\* r'\s+(\d+)' after a group that ends at e: the position of the number, 0
\* when it is not there
number_after(s, e) ==
    IF IsSpace(At(s, e + 1)) /\ IsDigit(At(s, SkipSpaces(s, e + 1)))
    THEN SkipSpaces(s, e + 1) ELSE 0

\* r'\s+Episode\s+(\d+)' after a group that ends at e, under re.IGNORECASE
episode_word_after(s, e) ==
    IF ~IsSpace(At(s, e + 1)) THEN 0
    ELSE Bind(LitCI(s, SkipSpaces(s, e + 1), S_Episode), LAMBDA q :
             IF q # 0 THEN number_after(s, q - 1) ELSE 0)

\* r'(.+?)' from position g with what has to follow it: the end of the lazy
\* group, 0 when it cannot match
lazy_group_end(s, g, After(_)) ==
    FirstPos(s, g, LAMBDA e : e <= Len(s) /\ After(e) # 0)

\* r'\s*(.+?)' from position p with what has to follow: \s* is greedy and
\* gives spaces back to the group when the group could not match otherwise
arc_group(s, p, After(_)) ==
    IF p = 0
       \/ \A g \in p..SkipSpaces(s, p) : lazy_group_end(s, g, After) = 0
    THEN [ok |-> FALSE]
    ELSE Bind(CHOOSE g \in p..SkipSpaces(s, p) :
                  /\ lazy_group_end(s, g, After) # 0
                  /\ \A h \in (g + 1)..SkipSpaces(s, p) :
                         lazy_group_end(s, h, After) = 0,
              LAMBDA g :
                  Bind(lazy_group_end(s, g, After), LAMBDA e :
                      [ok |-> TRUE, groups |->
                          <<Slice(s, g, e),
                            Slice(s, After(e), DigitsEnd(s, After(e)) - 1)>>]))

\* r'\s+' at position p: the position after the spaces, 0 when there is none
spaces_at(s, p) ==
    IF p # 0 /\ IsSpace(At(s, p)) THEN SkipSpaces(s, p) ELSE 0

\* PATTERNS['original'][k] matched at position i of the stem
original_at(k, s, i) ==
    Bind(LitCI(s, i, IF k = 4 THEN S_OnePace ELSE S_BrOnePace), LAMBDA p :
        IF k = 1
        THEN Bind(LitCI(s, spaces_at(s, p), S_PacedOnePiece), LAMBDA q :
                 arc_group(s, IF q = 0 THEN 0
                              ELSE Lit(s, SkipSpaces(s, q), <<"-">>),
                           LAMBDA e : episode_word_after(s, e)))
        ELSE IF k = 2
        THEN arc_group(s, chapters_bracket_at(s, p),
                       LAMBDA e : number_after(s, e))
        ELSE IF k = 3
        THEN arc_group(s, p, LAMBDA e : number_after(s, e))
        ELSE arc_group(s, IF p = 0 THEN 0
                          ELSE chapters_bracket_at(s, SkipSpaces(s, p)),
                       LAMBDA e : number_after(s, e)))

(***************************************************************************)
(* rename.py: Episode.get_file_name and get_episode_from_media             *)
(***************************************************************************)

S_SpaceDashSpace ==
    <<" ", "-", " ">>

S_SpaceParen ==
    <<" ", "(">>

S_onepaceDash ==
    <<"o", "n", "e", " ", "p", "a", "c", "e", "-">>

S_DotMP4Upper ==
    <<".", "M", "P", "4">>

T_AlabastaG8 ==
    <<"A", "l", "a", "b", "a", "s", "t", "a", " ", "(", "A", "l", "t", "e", "r", "n", "a", "t", "e", " ", "(", "G", "-", "8", ")", ")">>

T_Alabasta ==
    <<"A", "l", "a", "b", "a", "s", "t", "a">>

T_AprilFools ==
    <<"F", "o", "o", " ", "(", "A", "p", "r", "i", "l", " ", "F", "o", "o", "l", "s", ")">>

T_TwoParentheticals ==
    <<"T", " ", "(", "T", ")", " ", "(", "E", "x", "t", "e", "n", "d", "e", "d", ")">>

T_ParenInside ==
    <<"(", "T", ")", "T">>

T_ParenMiddle ==
    <<"T", " ", "(", "T", ")", " ", "T">>

V_AlternateG8 ==
    <<"A", "l", "t", "e", "r", "n", "a", "t", "e", " ", "(", "G", "-", "8", ")">>

V_AprilFools ==
    <<"A", "p", "r", "i", "l", " ", "F", "o", "o", "l", "s">>

N_AlabastaG8 ==
    <<"O", "n", "e", " ", "P", "a", "c", "e", " ", "-", " ", "S", "1", "2", "E", "0", "5", " ", "-", " ", "A", "l", "a", "b", "a", "s", "t", "a", " ", "(", "A", "l", "t", "e", "r", "n", "a", "t", "e", " ", "(", "G", "-", "8", ")", ")", ".", "m", "k", "v">>

T_Extended ==
    <<"T", " ", "(", "E", "x", "t", "e", "n", "d", "e", "d", ")">>

T_Parenthetical ==
    <<"T", " ", "(", "T", ")">>

T_LeadingSpace ==
    <<" ", "T">>

T_EmptyParens ==
    <<"(", ")">>

V_Nested ==
    <<"(", "T", ")">>

V_NestedTail ==
    <<"T", " ", "(", "T", ")">>

V_Unbalanced ==
    <<")", "(">>

\* no Episode was returned yet
NotReturned ==
    [ok |-> FALSE, pending |-> TRUE]

\* Episode(show, season, number, extended, title, filepath)
Episode(show, season, number, extended, title, filepath) ==
    [ok |-> TRUE, show |-> show, season |-> season, number |-> number,
     extended |-> extended, title |-> title, filepath |-> filepath]

\* f"{n:02d}" of an int that is not negative
TwoDigits(n) ==
    IF n < 10 THEN <<"0">> \o IntToStr(n) ELSE IntToStr(n)

\* Episode.episode_id
episode_id(ep) ==
    <<"S">> \o TwoDigits(ep.season) \o <<"E">> \o TwoDigits(ep.number)

\* f"({self.extended})"
in_parentheses(text) ==
    <<"(">> \o text \o <<")">>

\* a variant of get_file_name that leaves the variant out of the name
get_file_name_without_extended(ep, extension) ==
    ep.show \o S_SpaceDashSpace \o episode_id(ep) \o S_SpaceDashSpace
        \o ep.title \o extension

\* Episode.get_file_name
get_file_name(ep, extension) ==
    ep.show \o S_SpaceDashSpace \o episode_id(ep) \o S_SpaceDashSpace
        \o (IF Len(ep.extended) > 0
               /\ ~Contains(ep.title, in_parentheses(ep.extended))
            THEN ep.title \o S_SpaceParen \o ep.extended \o <<")">>
            ELSE ep.title)
        \o extension

\* r'(.mkv|.mp4)$' under re.IGNORECASE: the last four characters of the name
\* are any character and then mkv or mp4
media_ext_at_end(fn) ==
    /\ Len(fn) >= 4
    /\ \/ LitCI(fn, Len(fn) - 2, S_mkv) # 0
       \/ LitCI(fn, Len(fn) - 2, S_mp4) # 0

\* plex_pattern of get_episode_from_media matches with its head at j: the
\* extension is anchored at the end and must start after the second dash
media_plex_at(fn, j) ==
    Bind(plex_head_at(fn, j), LAMBDA h :
        h.ok /\ h.after_dash <= Len(fn) - 3 /\ media_ext_at_end(fn))

\* re.search(plex_pattern, filepath.name, re.IGNORECASE): the leftmost match;
\* \s* before the title is greedy, the title is what is left before the
\* extension
media_plex_match(fn) ==
    Bind(FirstPos(fn, 1, LAMBDA j : media_plex_at(fn, j)), LAMBDA i :
        IF i = 0 THEN [ok |-> FALSE]
        ELSE Bind(plex_head_at(fn, i), LAMBDA h :
                 [ok |-> TRUE, season |-> h.season, episode |-> h.episode,
                  title |-> Slice(fn, h.next, Len(fn) - 4)]))

\* a variant of paren_scan that stops at the first opening parenthesis
RECURSIVE paren_scan_innermost(_, _, _)
paren_scan_innermost(title, i, paren_depth) ==
    IF i = 0 THEN 0
    ELSE IF title[i] = "(" THEN i
    ELSE paren_scan_innermost(title, i - 1, paren_depth)

\* for i in range(len(title) - 1, -1, -1): the position of the opening
\* parenthesis that brings paren_depth back to 0, 0 when the loop ends
\* without a break
RECURSIVE paren_scan(_, _, _)
paren_scan(title, i, paren_depth) ==
    IF i = 0 THEN 0
    ELSE IF title[i] = ")" THEN paren_scan(title, i - 1, paren_depth + 1)
    ELSE IF title[i] = "("
    THEN IF paren_depth - 1 = 0 THEN i
         ELSE paren_scan(title, i - 1, paren_depth - 1)
    ELSE paren_scan(title, i - 1, paren_depth)

\* the Episode of the Plex branch, from the stripped title and the position
\* i of the matching opening parenthesis (0: none)
media_episode(season, number, title, i, fn) ==
    IF i = 0
    THEN Episode(S_OnePace, season, number, <<>>, title, fn)
    ELSE Episode(S_OnePace, season, number,
                 Slice(title, i + 1, Len(title) - 1),
                 Strip(Slice(title, 1, i - 1)), fn)

\* the Plex branch of get_episode_from_media after title = group(3).strip()
media_episode_of_title(season, number, title, fn) ==
    media_episode(season, number, title,
                  IF EndsWith(title, <<")">>)
                  THEN paren_scan(title, Len(title), 0) ELSE 0,
                  fn)

\* "if "Whiskey" in season_title: ...replace("Whiskey", "Whisky")" and the
\* same for Arabasta and Alabasta
normalize_season_title(season_title) ==
    replace_text(replace_text(season_title, S_Whiskey, S_Whisky),
                 S_Arabasta, T_Alabasta)

\* an exception that leaves the function in place of a return value
Raises(exception) ==
    [ok |-> FALSE, raised |-> exception]

\* re.search(paced_pattern, filepath.name, re.IGNORECASE): the leftmost match
media_paced_match(fn) ==
    Bind(FirstPos(fn, 1, LAMBDA i : original_at(1, fn, i).ok), LAMBDA i :
        IF i = 0 THEN [ok |-> FALSE] ELSE original_at(1, fn, i))

\* the Episode of the "Paced One Piece" branch: no title, nothing extended
media_paced_episode(groups, fn) ==
    Episode(S_OnePace,
            season_of_title(normalize_season_title(Strip(groups[1])), 1),
            DigitsToInt(groups[2]), <<>>, NoneStr, fn)

\* the Episode of the legacy branch: int() of the third group raises when
\* the group is a range of numbers; the season is None when the arc of the
\* name is no key of seasons.json, and there is no title
media_legacy_episode(m, fn) ==
    IF Contains(m.number, <<"-">>) THEN Raises("ValueError")
    ELSE Episode(S_OnePace,
                 season_of_title(normalize_season_title(m.season_title), 1),
                 DigitsToInt(m.number), m.extended, NoneStr, fn)

\* r'\[(\d+p)\]\[([A-F0-9]{8})\](.mkv|.mp4)' of media_pattern_misc at
\* position p
misc_tail_at(s, p) ==
    Bind(IF At(s, p) = "[" THEN DigitsEnd(s, p + 1) ELSE 0, LAMBDA d :
        /\ d # 0
        /\ Lit(s, d, <<"p", "]", "[">>) # 0
        /\ \A k \in (d + 3)..(d + 10) :
               IsDigit(At(s, k)) \/ At(s, k) \in {"A", "B", "C", "D", "E", "F"}
        /\ At(s, d + 11) = "]"
        /\ d + 15 <= Len(s)
        /\ (Lit(s, d + 13, S_mkv) # 0 \/ Lit(s, d + 13, S_mp4) # 0))

\* re.search(media_pattern_misc, filepath.name): a match anywhere in the
\* name, with single spaces and the case of the pattern
media_misc_match(fn) ==
    \E i \in 1..Len(fn) :
        Bind(Lit(fn, Lit(fn, i, S_BrOnePace), <<" ">> \o S_PacedOnePiece
                                               \o <<" ", "-", " ">>),
             LAMBDA g :
                 /\ g # 0
                 /\ \E e \in g..Len(fn) :
                        Bind(Lit(fn, e, <<" ">> \o S_Episode \o <<" ">>),
                             LAMBDA n :
                                 /\ n # 0
                                 /\ IsDigit(At(fn, n))
                                 /\ IsDigit(At(fn, n + 1))
                                 /\ At(fn, n + 2) = " "
                                 /\ misc_tail_at(fn, n + 3)))

\* get_episode_from_media: the Plex pattern, then paced_pattern, then
\* media_pattern for a name in brackets, then media_pattern_misc, whose
\* Episode(season_number=...) is a call the dataclass does not take
get_episode_from_media(fn) ==
    Bind(media_plex_match(fn), LAMBDA m :
        IF m.ok
        THEN media_episode_of_title(m.season, m.episode, Strip(m.title), fn)
        ELSE Bind(media_paced_match(fn), LAMBDA pm :
        IF pm.ok THEN media_paced_episode(pm.groups, fn)
        ELSE Bind(media_legacy_match(fn), LAMBDA g :
        IF g.ok THEN media_legacy_episode(g, fn)
        ELSE IF media_misc_match(fn) THEN Raises("TypeError")
        ELSE NoEpisode)))

(***************************************************************************)
(* rename.py: one file is named and parsed                                 *)
(***************************************************************************)
\* a title found in a library name is made of at most this many pieces
MaxTitleTokens ==
    4

\* the title of an Episode to name is made of at most this many pieces
MaxEpisodeTitleTokens ==
    1

\* the variant of an Episode to name is made of at most this many pieces
MaxVariantTokens ==
    2

\* the pieces titles and variants are made of
TextTokens ==
    {<<"T">>, <<" ">>, <<"(">>, <<")">>, S_Extended}

\* the texts made of at most n pieces
RECURSIVE TokenStrings(_)
TokenStrings(n) ==
    IF n = 0 THEN {<<>>}
    ELSE Bind(TokenStrings(n - 1), LAMBDA shorter :
             shorter \cup {t \o s : t \in TextTokens, s \in shorter})

\* the ways a Plex-style name is written around its title
NameForms ==
    { [lead |-> S_OnePace \o <<" ", "-", " ", "S">>, season_txt |-> <<"1", "2">>,
       season |-> 12, mid |-> <<"E">>, episode_txt |-> <<"0", "5">>,
       episode |-> 5, sep |-> S_SpaceDashSpace, ext |-> S_DotMkv],
      [lead |-> S_onepaceDash \o <<"s">>, season_txt |-> <<"5">>,
       season |-> 5, mid |-> <<"e">>, episode_txt |-> <<"1", "0", "0">>,
       episode |-> 100, sep |-> <<"-">>, ext |-> S_DotMP4Upper] }

\* the name of a library file, from the way it is written and its title text
library_name(form, title_txt) ==
    form.lead \o form.season_txt \o form.mid \o form.episode_txt \o form.sep
        \o title_txt \o form.ext

\* the title texts of the library names of the model
LibraryTitles ==
    TokenStrings(MaxTitleTokens)
        \cup {T_AlabastaG8, T_AprilFools, T_TwoParentheticals, T_Extended,
              T_Parenthetical}

\* the Episodes of the model that are given a name
EpisodeTitles ==
    TokenStrings(MaxEpisodeTitleTokens)
        \cup {T_Alabasta, T_ParenInside, T_ParenMiddle, T_Parenthetical,
              T_LeadingSpace, T_EmptyParens}

EpisodeVariants ==
    TokenStrings(MaxVariantTokens)
        \cup {V_AlternateG8, V_AprilFools, V_Nested, V_NestedTail, V_Unbalanced}

EpisodeIds ==
    { [season |-> 5, number |-> 3, extension |-> S_DotMkv],
      [season |-> 12, number |-> 100, extension |-> S_DotMp4] }

\* either a file of the library is about to be parsed, or an Episode is
\* about to be given its file name
ParseInit ==
    /\ media = NotReturned
    /\ \/ /\ \E f \in NameForms, t \in LibraryTitles :
                /\ given = [kind |-> "name", form |-> f, title_txt |-> t]
                /\ fname = library_name(f, t)
          /\ ppc = "parse"
       \/ /\ \E id \in EpisodeIds, t \in EpisodeTitles, x \in EpisodeVariants :
                given = [kind |-> "episode",
                         episode |-> Episode(S_OnePace, id.season, id.number,
                                             x, t, NoneStr),
                         extension |-> id.extension]
          /\ fname = NoneStr
          /\ ppc = "name"

\* episode.get_file_name(extension)
get_file_name_call ==
    /\ ppc = "name"
    /\ fname' = get_file_name(given.episode, given.extension)
    /\ ppc' = "parse"
    /\ UNCHANGED <<given, media, otherThanParse>>

\* get_episode_from_media(filepath, seasons)
get_episode_from_media_call ==
    /\ ppc = "parse"
    /\ media' = get_episode_from_media(fname)
    /\ ppc' = "done"
    /\ UNCHANGED <<given, fname, otherThanParse>>

ParseNext ==
    \/ get_file_name_call
    \/ get_episode_from_media_call

\* one file is named and parsed, nothing else runs
ParseStart ==
    ParseInit /\ ScanIdle /\ RangesIdle /\ RenameIdle /\ TitleIdle
    /\ ImportIdle
    /\ CallIdle

SpecParse ==
    ParseStart /\ [][ParseNext]_vars

(***************************************************************************)
(* Properties of naming and parsing (SpecParse)                            *)
(***************************************************************************)
\* how many of the first k characters of text are c
CountIn(text, c, k) ==
    Cardinality({j \in 1..k : text[j] = c})

\* every ")" of the text closes a "(" of the text, and none is left open
Balanced(text) ==
    /\ \A k \in 1..Len(text) : CountIn(text, ")", k) <= CountIn(text, "(", k)
    /\ CountIn(text, ")", Len(text)) = CountIn(text, "(", Len(text))

\* the position of the "(" that the last character of the text closes:
\* the text is  before ( inside )  with inside balanced; 0 when the text
\* does not end so
OutermostOpen(text) ==
    IF \E i \in 1..(Len(text) - 1) :
           /\ text[i] = "(" /\ text[Len(text)] = ")"
           /\ Balanced(Slice(text, i + 1, Len(text) - 1))
    THEN CHOOSE i \in 1..(Len(text) - 1) :
           /\ text[i] = "(" /\ text[Len(text)] = ")"
           /\ Balanced(Slice(text, i + 1, Len(text) - 1))
    ELSE 0

\* the content of the outermost trailing parenthetical, "" when none
TrailingParenthetical(text) ==
    Bind(OutermostOpen(text), LAMBDA i :
        IF i = 0 THEN <<>> ELSE Slice(text, i + 1, Len(text) - 1))

\* the text before the outermost trailing parenthetical, trimmed
BeforeParenthetical(text) ==
    Bind(OutermostOpen(text), LAMBDA i :
        IF i = 0 THEN text ELSE Strip(Slice(text, 1, i - 1)))

\* the content begins with "Extended" or "Alternate"
Conventional(variant) ==
    Lit(variant, 1, S_Extended) # 0 \/ Lit(variant, 1, S_Alternate) # 0

\* a library name has been parsed
NameParsed ==
    ppc = "done" /\ given.kind = "name"

\* season and episode are the integers written in the name
NumbersRecovered ==
    /\ media.ok
    /\ media.season = given.form.season
    /\ media.number = given.form.episode

RoundTripDone ==
    ppc = "done" /\ given.kind = "episode"

\* parsing returned the season, number, title and variant of the Episode
RoundTripSame ==
    /\ media.ok
    /\ media.season = given.episode.season
    /\ media.number = given.episode.number
    /\ media.title = given.episode.title
    /\ media.extended = given.episode.extended

\* C8 as stated: for every Episode with any title and a variant that is
\* empty or text with balanced parentheses, parsing the name get_file_name
\* gives returns the same season, number, title and variant.
C8_RoundTripAnyTitle ==
    (RoundTripDone /\ Balanced(given.episode.extended)) => RoundTripSame

\* the title is one the name can give back: trimmed, and not ending with a
\* parenthetical of its own when there is no variant, not holding
\* "(variant)" when there is one
TitleRoundTrips(ep) ==
    /\ Strip(ep.title) = ep.title
    /\ Len(ep.extended) = 0 => OutermostOpen(ep.title) = 0
    /\ Len(ep.extended) > 0 => ~Contains(ep.title, in_parentheses(ep.extended))

\* C8 as the code has it: for every Episode whose title has no leading or
\* trailing white space, does not end with a parenthetical when the variant
\* is empty and does not contain "(variant)" when it is not, and whose
\* variant is empty or text with balanced parentheses, parsing the name
\* get_file_name gives returns the same season, number, title and variant.
C8_RoundTripWhenTitleAllows ==
    (RoundTripDone
        /\ Balanced(given.episode.extended)
        /\ TitleRoundTrips(given.episode)) => RoundTripSame

\* C8 witness: an Episode with a variant that is no conventional one and
\* holds no parentheses was named and parsed back.
C8_Witness ==
    /\ RoundTripDone
    /\ given.episode.title = T_Alabasta
    /\ given.episode.extended = V_AprilFools
    /\ media.ok
    /\ media.title = T_Alabasta
    /\ media.extended = V_AprilFools

(***************************************************************************)
(* dist/rename.py main and update_repository_nfos of the import tool: the  *)
(* sidecar repository, a library, and the renames between them             *)
(***************************************************************************)
MaxRecords ==
    2

MaxMedia ==
    2

S_Specials ==
    <<"S", "p", "e", "c", "i", "a", "l", "s">>

S_SeasonSpace ==
    <<"S", "e", "a", "s", "o", "n", " ">>

S_SpaceDashSpaceS ==
    <<" ", "-", " ", "S">>

X_SpecialCut ==
    <<"S", "p", "e", "c", "i", "a", "l", " ", "C", "u", "t">>

R_Foo ==
    <<"O", "n", "e", " ", "P", "a", "c", "e", " ", "-", " ", "S", "0", "5", "E", "0", "3", " ", "-", " ", "F", "o", "o", ".", "n", "f", "o">>

R_FooExt ==
    <<"O", "n", "e", " ", "P", "a", "c", "e", " ", "-", " ", "S", "0", "5", "E", "0", "3", " ", "-", " ", "F", "o", "o", " ", "(", "E", "x", "t", "e", "n", "d", "e", "d", ")", ".", "n", "f", "o">>

R_Tx ==
    <<"O", "n", "e", " ", "P", "a", "c", "e", " ", "-", " ", "S", "0", "5", "E", "0", "3", " ", "-", " ", "T", " ", "(", "A", "!", ")", " ", "x", ".", "n", "f", "o">>

R_TxExt ==
    <<"O", "n", "e", " ", "P", "a", "c", "e", " ", "-", " ", "S", "0", "5", "E", "0", "3", " ", "-", " ", "T", " ", "(", "A", "!", ")", " ", "x", " ", "(", "E", "x", "t", "e", "n", "d", "e", "d", ")", ".", "n", "f", "o">>

R_FooCut ==
    <<"O", "n", "e", " ", "P", "a", "c", "e", " ", "-", " ", "S", "0", "5", "E", "0", "3", " ", "-", " ", "F", "o", "o", " ", "(", "A", "!", ")", ".", "n", "f", "o">>

M_Old ==
    <<"O", "n", "e", " ", "P", "a", "c", "e", " ", "-", " ", "S", "0", "5", "E", "0", "3", " ", "-", " ", "O", "l", "d", ".", "m", "k", "v">>

M_Older ==
    <<"O", "n", "e", " ", "P", "a", "c", "e", " ", "-", " ", "S", "0", "5", "E", "0", "3", " ", "-", " ", "O", "l", "d", "e", "r", ".", "m", "k", "v">>

M_OldExt ==
    <<"O", "n", "e", " ", "P", "a", "c", "e", " ", "-", " ", "S", "0", "5", "E", "0", "3", " ", "-", " ", "O", "l", "d", " ", "(", "E", "x", "t", "e", "n", "d", "e", "d", ")", ".", "m", "k", "v">>

M_OldA ==
    <<"O", "n", "e", " ", "P", "a", "c", "e", " ", "-", " ", "S", "0", "5", "E", "0", "3", " ", "-", " ", "O", "l", "d", " ", "(", "A", "!", ")", ".", "m", "k", "v">>

M_Foo ==
    <<"O", "n", "e", " ", "P", "a", "c", "e", " ", "-", " ", "S", "0", "5", "E", "0", "3", " ", "-", " ", "F", "o", "o", ".", "m", "k", "v">>

M_FooCut ==
    <<"O", "n", "e", " ", "P", "a", "c", "e", " ", "-", " ", "S", "0", "5", "E", "0", "3", " ", "-", " ", "F", "o", "o", " ", "(", "A", "!", ")", ".", "m", "k", "v">>

M_Cut ==
    <<"S", "p", "e", "c", "i", "a", "l", " ", "C", "u", "t", ".", "m", "k", "v">>

M_OldMp4 ==
    <<"O", "n", "e", " ", "P", "a", "c", "e", " ", "-", " ", "S", "0", "5", "E", "0", "3", " ", "-", " ", "O", "l", "d", ".", "m", "p", "4">>

M_Notes ==
    <<"n", "o", "t", "e", "s", ".", "m", "k", "v">>

U_Foo ==
    <<"F", "o", "o">>

U_FooExt ==
    <<"F", "o", "o", " ", "(", "E", "x", "t", "e", "n", "d", "e", "d", ")">>

U_Bar ==
    <<"B", "a", "r">>

S_OnePaceDashS ==
    <<"O", "n", "e", " ", "P", "a", "c", "e", " ", "-", " ", "S">>

\* exceptions.json: season name -> (substring of the file name -> episode)
rename_exceptions(season_name) ==
    IF season_name = S_SeasonSpace \o <<"5">>
    THEN <<[str |-> X_SpecialCut, ep |-> 3]>>
    ELSE <<>>

\* "Specials" if season_no == 0 else f"Season {season_no}"
season_name_of(season_no) ==
    IF season_no = 0 THEN S_Specials ELSE S_SeasonSpace \o IntToStr(season_no)

\* r' - S(\d+)E(\d+) - ' at position i: the season, the number and the
\* position after the match
nfo_head_at(fn, i) ==
    Bind(Lit(fn, i, S_SpaceDashSpaceS), LAMBDA p1 :
    Bind(IF p1 = 0 THEN 0 ELSE DigitsEnd(fn, p1), LAMBDA p2 :
    Bind(IF p2 = 0 THEN 0 ELSE Lit(fn, p2, <<"E">>), LAMBDA p3 :
    Bind(IF p3 = 0 THEN 0 ELSE DigitsEnd(fn, p3), LAMBDA p4 :
    Bind(IF p4 = 0 THEN 0 ELSE Lit(fn, p4, S_SpaceDashSpace), LAMBDA p5 :
        IF p5 = 0 THEN [ok |-> FALSE]
        ELSE [ok |-> TRUE,
              season |-> DigitsToInt(Slice(fn, p1, p2 - 1)),
              number |-> DigitsToInt(Slice(fn, p3, p4 - 1)),
              next |-> p5])))))

\* r'\w[\w\s\(\)-]+'
nfo_extended_text(text) ==
    /\ Len(text) >= 2
    /\ IsWord(text[1])
    /\ \A k \in 2..Len(text) :
           IsWord(text[k]) \/ IsSpace(text[k]) \/ text[k] \in {"(", ")", "-"}

\* r'(?:\s\((\w[\w\s\(\)-]+)\))?\.nfo$' at position k: .nfo alone, or a space,
\* a parenthesised text that runs to the last ")" and .nfo
nfo_tail_at(fn, k) ==
    \/ k = Len(fn) - 3
    \/ /\ IsSpace(At(fn, k))
       /\ At(fn, k + 1) = "("
       /\ At(fn, Len(fn) - 4) = ")"
       /\ k + 2 <= Len(fn) - 5
       /\ nfo_extended_text(Slice(fn, k + 2, Len(fn) - 5))

\* nfo_pattern matches with ' - S' at position i
nfo_pattern_at(fn, i) ==
    Bind(nfo_head_at(fn, i), LAMBDA h :
        h.ok /\ h.next <= Len(fn) - 3 /\ EndsWith(fn, S_DotNfo))

\* the Episode of a match with head h whose lazy title ends before k
nfo_episode(fn, h, k, filepath) ==
    Episode(Slice(fn, 1, h.at - 1), h.season, h.number,
            IF k = Len(fn) - 3 THEN <<>> ELSE Slice(fn, k + 2, Len(fn) - 5),
            Slice(fn, h.next, k - 1), filepath)

\* get_episode_from_nfo: the show is lazy, so the head is the leftmost one;
\* the title is lazy, so it ends at the first position the tail matches at
get_episode_from_nfo(filepath) ==
    Bind(filepath.name, LAMBDA fn :
    Bind(FirstPos(fn, 1, LAMBDA j : nfo_pattern_at(fn, j)), LAMBDA i :
        IF i = 0 THEN NoEpisode
        ELSE Bind(nfo_head_at(fn, i), LAMBDA h :
                 nfo_episode(fn, [h EXCEPT !.ok = TRUE] @@ [at |-> i],
                             FirstPos(fn, h.next,
                                      LAMBDA k : nfo_tail_at(fn, k)),
                             filepath))))

\* bool(episode.extended)
is_extended(ep) ==
    Len(ep.extended) > 0

\* (nfo_data.season, nfo_data.number, is_extended)
lookup_key(ep) ==
    <<ep.season, ep.number, is_extended(ep)>>

\* nfo_data_lookup[key] = nfo_data
lookup_put(lookup, ep) ==
    [k \in DOMAIN lookup \cup {lookup_key(ep)} |->
        IF k = lookup_key(ep) THEN ep ELSE lookup[k]]

\* Path.suffix of a media file name
suffix_of(name) ==
    Bind(last_dot(name), LAMBDA d :
        IF d = 0 THEN <<>> ELSE Slice(name, d, Len(name)))

\* the content of a file of the model: where it was when the run began
Content(origin, path) ==
    [origin |-> origin, path |-> path]

\* no file: what a rename replaced when its target path was free
NoContent ==
    [origin |-> "none"]

\* the tree with the file at src moved to dst (unlink of dst, then rename)
tree_rename(tree, src, dst) ==
    [p \in (DOMAIN tree \ {src}) \cup {dst} |->
        IF p = dst THEN tree[src] ELSE tree[p]]

\* the tree with content written to dst
tree_write(tree, dst, content) ==
    [p \in DOMAIN tree \cup {dst} |-> IF p = dst THEN content ELSE tree[p]]

\* the season folders of the sidecar repository
RepoSeasonDir(season_no) ==
    <<season_name_of(season_no)>>

\* tvshow.nfo and the season.nfo of every season: the repository ships them
RepoFixed ==
    {LibPath(<<>>, S_TvshowNfo)}
    \cup {LibPath(RepoSeasonDir(rename_seasons[j].no), S_SeasonNfo) :
              j \in 1..Len(rename_seasons)}

\* the episode sidecars a repository of the model may hold
RecordPool ==
    {LibPath(RepoSeasonDir(5), n) :
        n \in {R_Foo, R_FooExt, R_FooCut, R_Tx, R_TxExt}}

\* the repositories of the model
RepoTrees ==
    {[p \in RepoFixed \cup S |-> Content("repository", p)] :
        S \in SubsetsUpTo(RecordPool, MaxRecords)}

\* the media files a library of the model may hold
MediaPool ==
    {LibPath(RepoSeasonDir(5), n) :
        n \in {M_Old, M_Older, M_OldExt, M_OldA, M_Foo, M_FooCut, M_Cut,
               M_OldMp4, M_Notes, M_LegacyDawn}}
    \cup {LibPath(RepoSeasonDir(6), M_Old), LibPath(<<A_Five>>, M_Old)}

\* the libraries of the model; the folder of every season exists in them
LibTrees ==
    {[p \in S |-> Content("library", p)] :
        S \in SubsetsUpTo(MediaPool, MaxMedia)}

\* show_dir.glob(f"*{season_title}*") that are directories: the folders of
\* the library whose name holds the arc title
arc_folders(tree, season_title) ==
    {p.dir[1] : p \in {q \in DOMAIN tree :
                           Len(q.dir) >= 1 /\ Contains(q.dir[1], season_title)}}

\* season_folder of the loop over seasons.items(); the libraries of the model
\* hold at most one folder per arc, so season_folders[0] is that folder
season_folder(tree, season) ==
    Bind(arc_folders(tree, season.title), LAMBDA season_folders :
        IF season_folders # {}
        THEN CHOOSE d \in season_folders : TRUE
        ELSE season_name_of(season.no))

\* season_folder.glob("*.mkv") + season_folder.glob("*.mp4") for the j-th
\* season
media_files(tree, j) ==
    {p \in video_files(tree) :
        p.dir = <<season_folder(tree, rename_seasons[j])>>}

\* the place of a media file in the order main visits them in: the season
\* of its folder, then .mkv before .mp4
media_rank(tree, p) ==
    2 * (CHOOSE j \in 1..Len(rename_seasons) : p \in media_files(tree, j))
        + (IF EndsWith(p.name, S_DotMkv) THEN 0 ELSE 1)

\* the entries of exception_mapping whose exception_str is in filepath.name
exception_hits(mapping, name) ==
    {k \in 1..Len(mapping) : Contains(name, mapping[k].str)}

\* episode_no after the loop over exception_mapping.items(): the last hit
exception_episode_no(mapping, name) ==
    mapping[CHOOSE k \in exception_hits(mapping, name) :
                \A m \in exception_hits(mapping, name) : m <= k].ep

\* matches after the loop: a set of paths, filepath is added once per hit
exception_matches(mapping, filepath) ==
    {filepath : k \in exception_hits(mapping, filepath.name)}

\* "Warning! Multiple exception episodes found:" is printed for the file
exception_warning(filepath, mapping) ==
    /\ ~get_episode_from_media(filepath.name).ok
    /\ Cardinality(exception_matches(mapping, filepath)) >= 2

\* the body of "for filepath in media_files" with the exception_mapping of
\* the folder: pending after it
pending_with(pend, filepath, season, mapping) ==
    Bind(get_episode_from_media(filepath.name), LAMBDA episode :
        IF episode.ok
        THEN Append(pend, [episode EXCEPT !.filepath = filepath])
        ELSE IF Cardinality(exception_matches(mapping, filepath)) >= 2
        THEN pend
        ELSE IF Cardinality(exception_matches(mapping, filepath)) = 1
        THEN Append(pend,
                    Episode(S_OnePace, season.no,
                            exception_episode_no(mapping, filepath.name),
                            <<>>, <<>>, filepath))
        ELSE pend)

\* the body of "for filepath in media_files": pending after it
pending_after(pend, filepath, season) ==
    pending_with(pend, filepath, season,
                 rename_exceptions(season_name_of(season.no)))

\* copy_if_different: filecmp.cmp is true when dst holds what src holds
copy_if_different(content, dst, tree, dry_run) ==
    IF dst \in DOMAIN tree /\ tree[dst] = content THEN tree
    ELSE IF dry_run THEN tree
    ELSE tree_write(tree, dst, content)

\* the loop over pending_snfo from its j-th entry on
RECURSIVE copy_season_nfos(_, _, _, _)
copy_season_nfos(tree, repository, j, dry_run) ==
    IF j > Len(rename_seasons) THEN tree
    ELSE copy_season_nfos(
             copy_if_different(
                 repository[LibPath(RepoSeasonDir(rename_seasons[j].no),
                                    S_SeasonNfo)],
                 LibPath(<<season_folder(tree, rename_seasons[j])>>,
                         S_SeasonNfo),
                 tree, dry_run),
             repository, j + 1, dry_run)

\* rename_nfo
rename_nfo(tree, repository, episode, nfo_data, dry_run) ==
    copy_if_different(repository[nfo_data.filepath],
                      with_suffix_nfo(episode.filepath), tree, dry_run)

\* rename_media: episode.title = nfo_data.title, then the name of the episode
\* with the suffix of the file
new_episode_name(episode, nfo_data) ==
    get_file_name([episode EXCEPT !.title = nfo_data.title],
                  suffix_of(episode.filepath.name))

\* rename_media: the path it renames to
target_path(episode, nfo_data) ==
    LibPath(episode.filepath.dir, new_episode_name(episode, nfo_data))

\* rename_media: whether it gets to rename the file
rename_media_renames(episode, nfo_data, dry_run) ==
    episode.filepath.name # new_episode_name(episode, nfo_data) /\ ~dry_run

\* rename_media: the library after it
rename_media(tree, episode, nfo_data, dry_run) ==
    IF rename_media_renames(episode, nfo_data, dry_run)
    THEN tree_rename(tree, episode.filepath, target_path(episode, nfo_data))
    ELSE tree

\* what a rename of source to target in tree did: the file it replaced, and
\* whether the replacement was confirmed
Renamed(tree, source, target, record, confirmed) ==
    [source |-> source, target |-> target, record |-> record,
     moved |-> tree[source],
     removed |-> IF target \in DOMAIN tree THEN tree[target] ELSE NoContent,
     confirmed |-> confirmed]

\* rename_media: RENAMING or OVERWRITING; target_path.unlink() is preceded by
\* a print only
rename_media_renamed(tree, episode, nfo_data, dry_run) ==
    IF rename_media_renames(episode, nfo_data, dry_run)
    THEN {Renamed(tree, episode.filepath, target_path(episode, nfo_data),
                  nfo_data.filepath, FALSE)}
    ELSE {}

\* scan_nfo_files: every .nfo but season.nfo and tvshow.nfo
scan_nfo_files(tree) ==
    {p \in nfo_files(tree) : p.name \notin {S_SeasonNfo, S_TvshowNfo}}

\* parse_nfo_filename: re.match of r"One Pace - S(\d+)E(\d+) - (.+?)\.nfo";
\* the lazy title has one character at least and ends before the first .nfo
parse_nfo_filename(name) ==
    Bind(IF Lit(name, 1, S_OnePace) = 0 THEN [ok |-> FALSE]
         ELSE nfo_head_at(name, Len(S_OnePace) + 1), LAMBDA h :
    Bind(IF h.ok
         THEN FirstPos(name, h.next + 1, LAMBDA k : Lit(name, k, S_DotNfo) # 0)
         ELSE 0, LAMBDA k :
        IF k = 0 THEN [ok |-> FALSE]
        ELSE [ok |-> TRUE, season |-> h.season, episode |-> h.number,
              title |-> Strip(Slice(name, h.next, k - 1))]))

\* generate_plex_filename(season, episode, title) + '.nfo', for a title that
\* sanitize_filename leaves as it is
expected_nfo_filename(season, episode, title) ==
    S_OnePaceDashS \o TwoDigits(season) \o <<"E">> \o TwoDigits(episode)
        \o S_SpaceDashSpace \o title \o S_DotNfo

\* the titles the metadata sources resolve to
MetaTitles ==
    {U_Foo, U_FooExt, U_Bar}

\* what the read of a sidecar finds
Readings ==
    {"one_pace", "original", "unreadable"}

\* what the user types at a prompt
Responses ==
    {"y", "n", "a"}

\* what one iteration of the loop of update_repository_nfos did
Outcome(tree, a, counter, renamed) ==
    [repo |-> tree, args |-> a, counter |-> counter, renamed |-> renamed,
     asked |-> {}]

\* input(...): the iteration has issued a prompt
with_prompt(o, prompt) ==
    [o EXCEPT !.asked = @ \cup {prompt}]

\* the rename branch with a target that exists: "Overwrite existing file?
\* (y/n)" is asked, and the target is removed only after a "y"
update_overwrite(tree, a, nfo_path, new_nfo_path, new_nfo_content, overwrite) ==
    with_prompt(
        IF overwrite # "y" THEN Outcome(tree, a, "skipped", {})
        ELSE Outcome(tree_rename(tree_write(tree, nfo_path, new_nfo_content),
                                 nfo_path, new_nfo_path),
                     a, "updated",
                     {Renamed(tree, nfo_path, new_nfo_path, nfo_path, TRUE)}),
        "overwrite")

\* a mutant of update_rename: a refused overwrite is counted as an update
update_rename_counts_refusal(tree, a, nfo_path, new_nfo_path, new_nfo_content, overwrite) ==
    IF new_nfo_path \in DOMAIN tree /\ new_nfo_path # nfo_path
       /\ overwrite # "y"
    THEN Outcome(tree, a, "updated", {})
    ELSE Outcome(tree_rename(tree_write(tree, nfo_path, new_nfo_content),
                             nfo_path, new_nfo_path),
                 a, "updated",
                 {Renamed(tree, nfo_path, new_nfo_path, nfo_path,
                          new_nfo_path \in DOMAIN tree)})

\* the rename branch
update_rename(tree, a, nfo_path, new_nfo_path, new_nfo_content, overwrite) ==
    IF new_nfo_path \in DOMAIN tree /\ new_nfo_path # nfo_path
    THEN update_overwrite(tree, a, nfo_path, new_nfo_path, new_nfo_content,
                          overwrite)
    ELSE Outcome(tree_rename(tree_write(tree, nfo_path, new_nfo_content),
                             nfo_path, new_nfo_path),
                 a, "updated",
                 {Renamed(tree, nfo_path, new_nfo_path, nfo_path, FALSE)})

\* "if not args.dry_run: ... else: ..." and updated_count += 1
update_write(tree, a, nfo_path, new_nfo_path, new_nfo_content, overwrite) ==
    IF a.dry_run THEN Outcome(tree, a, "updated", {})
    ELSE IF new_nfo_path # nfo_path
    THEN update_rename(tree, a, nfo_path, new_nfo_path, new_nfo_content,
                       overwrite)
    ELSE Outcome(tree_write(tree, nfo_path, new_nfo_content), a, "updated",
                 {})

\* the content the iteration writes: the generated sidecar when it differs
\* from the file, else the content the file has
update_content(tree, nfo_path, changed) ==
    IF changed THEN Content("generated", nfo_path) ELSE tree[nfo_path]

\* "if not args.force and not args.dry_run": "Update ...? (y/n/a for all)"
\* is asked, and "a" sets force
update_ask(tree, a, nfo_path, new_nfo_path, changed, response, overwrite) ==
    with_prompt(
        IF response \notin {"a", "y"} THEN Outcome(tree, a, "skipped", {})
        ELSE update_write(tree,
                          IF response = "a" THEN [a EXCEPT !.force = TRUE]
                          ELSE a,
                          nfo_path, new_nfo_path,
                          update_content(tree, nfo_path, changed), overwrite),
        "update")

\* from "if not content_changed and not needs_rename" on
update_confirm(tree, a, nfo_path, new_nfo_path, changed, response, overwrite) ==
    IF ~changed /\ new_nfo_path = nfo_path
    THEN Outcome(tree, a, "unchanged", {})
    ELSE IF ~a.force /\ ~a.dry_run
    THEN update_ask(tree, a, nfo_path, new_nfo_path, changed, response,
                    overwrite)
    ELSE update_write(tree, a, nfo_path, new_nfo_path,
                      update_content(tree, nfo_path, changed), overwrite)

\* one iteration of "for nfo_path in nfo_files"; is_one_pace_episode raises
\* when the file cannot be read, and the sidecar of an original episode is
\* skipped before that; the metadata of the episode
\* comes from the title table, the site and the user: it is valid or not,
\* and has a title
update_nfo(tree, a, nfo_path, reading, metadata, changed, response, overwrite) ==
    Bind(parse_nfo_filename(nfo_path.name), LAMBDA episode_info :
        IF nfo_path \notin DOMAIN tree \/ reading = "unreadable"
        THEN Outcome(tree, a, "failed", {})
        ELSE IF reading = "original" THEN Outcome(tree, a, "skipped", {})
        ELSE IF ~episode_info.ok THEN Outcome(tree, a, "failed", {})
        ELSE IF episode_info.season = 0 THEN Outcome(tree, a, "skipped", {})
        ELSE IF episode_info.episode = 0 \/ ~metadata.valid
        THEN Outcome(tree, a, "failed", {})
        ELSE update_confirm(
                 tree, a, nfo_path,
                 LibPath(nfo_path.dir,
                         expected_nfo_filename(episode_info.season,
                                               episode_info.episode,
                                               metadata.title)),
                 changed, response, overwrite))

(***************************************************************************)
(* The run of rename.py (without --patch-nfo) and the run of the import    *)
(* tool with --update-repo                                                 *)
(***************************************************************************)
RenameInit ==
    /\ repo \in RepoTrees
    /\ \/ /\ rpc = "lookup"
          /\ lib \in LibTrees
          /\ args \in [dry_run : BOOLEAN, keep_original : BOOLEAN,
                       force : {FALSE}]
          /\ todo = nfo_files(repo)
       \/ /\ rpc = "update"
          /\ lib = <<>>
          /\ args \in [dry_run : BOOLEAN, keep_original : {FALSE},
                       force : BOOLEAN]
          /\ todo = scan_nfo_files(repo)
    /\ nfo_data_lookup = <<>>
    /\ pending = <<>>
    /\ without_nfo = <<>>
    /\ counts = NoCounts
    /\ renames = {}
    /\ asked = {}

\* main: one iteration of "for filepath in nfo_files"; rglob yields the
\* files in an order the file system decides
main_lookup_step ==
    /\ rpc = "lookup"
    /\ \E filepath \in todo :
          /\ nfo_data_lookup' =
                 Bind(get_episode_from_nfo(filepath), LAMBDA nfo_data :
                     IF nfo_data.ok
                     THEN lookup_put(nfo_data_lookup, nfo_data)
                     ELSE nfo_data_lookup)
          /\ todo' = todo \ {filepath}
    /\ UNCHANGED <<args, repo, lib, pending, without_nfo, counts, renames,
                   rpc, asked, otherThanRename>>

\* main: the lookup table is built; the loop over the seasons starts
main_seasons_begin ==
    /\ rpc = "lookup"
    /\ todo = {}
    /\ rpc' = "collect"
    /\ pending' = <<>>
    /\ todo' = UNION {media_files(lib, j) : j \in 1..Len(rename_seasons)}
    /\ UNCHANGED <<args, repo, lib, nfo_data_lookup, without_nfo, counts,
                   renames, asked, otherThanRename>>

\* main: one iteration of "for filepath in media_files", the seasons in the
\* order of seasons.json and .mkv before .mp4 within a season
main_media_step ==
    /\ rpc = "collect"
    /\ \E filepath \in todo :
          /\ \A q \in todo : media_rank(lib, filepath) <= media_rank(lib, q)
          /\ pending' =
                 pending_after(
                     pending, filepath,
                     rename_seasons[media_rank(lib, filepath) \div 2])
          /\ todo' = todo \ {filepath}
    /\ UNCHANGED <<args, repo, lib, nfo_data_lookup, without_nfo, counts,
                   renames, rpc, asked, otherThanRename>>

\* main: tvshow.nfo and the season.nfo files are copied (the repository of
\* the model holds no poster); the loop over pending starts
main_copy_metadata ==
    /\ rpc = "collect"
    /\ todo = {}
    /\ lib' = copy_season_nfos(
                  copy_if_different(repo[LibPath(<<>>, S_TvshowNfo)],
                                    LibPath(<<>>, S_TvshowNfo), lib,
                                    args.dry_run),
                  repo, 1, args.dry_run)
    /\ without_nfo' = <<>>
    /\ todo' = 1..Len(pending)
    /\ rpc' = "rename"
    /\ UNCHANGED <<args, repo, nfo_data_lookup, pending, counts, renames,
                   asked, otherThanRename>>

\* main: one iteration of "for episode in pending"
main_pending_step ==
    /\ rpc = "rename"
    /\ \E i \in todo :
          /\ \A k \in todo : i <= k
          /\ todo' = todo \ {i}
          /\ IF lookup_key(pending[i]) \notin DOMAIN nfo_data_lookup
             THEN /\ without_nfo' = Append(without_nfo, pending[i])
                  /\ UNCHANGED <<lib, renames>>
             ELSE IF args.keep_original
             THEN /\ lib' = rename_nfo(lib, repo, pending[i],
                                       nfo_data_lookup[lookup_key(pending[i])],
                                       args.dry_run)
                  /\ UNCHANGED <<without_nfo, renames>>
             ELSE /\ lib' = rename_media(lib, pending[i],
                                         nfo_data_lookup[lookup_key(pending[i])],
                                         args.dry_run)
                  /\ renames' = renames \cup
                         rename_media_renamed(
                             lib, pending[i],
                             nfo_data_lookup[lookup_key(pending[i])],
                             args.dry_run)
                  /\ UNCHANGED without_nfo
    /\ UNCHANGED <<args, repo, nfo_data_lookup, pending, counts, rpc,
                   asked, otherThanRename>>

\* f"S{episode.season:02d}..." raises TypeError for an episode whose season
\* is None
warning_raises(episodes) ==
    \E k \in 1..Len(episodes) : episodes[k].season = NoneInt

\* main: the warnings are printed and the script ends
main_return ==
    /\ rpc = "rename"
    /\ todo = {}
    /\ rpc' = IF warning_raises(without_nfo) THEN "raised" ELSE "done"
    /\ UNCHANGED <<args, repo, lib, nfo_data_lookup, todo, pending,
                   without_nfo, counts, renames, asked, otherThanRename>>

\* update_repository_nfos: one iteration of "for nfo_path in nfo_files"
update_repository_nfos_step ==
    /\ rpc = "update"
    /\ \E nfo_path \in todo, reading \in Readings,
          metadata \in [valid : BOOLEAN, title : MetaTitles],
          content_changed \in BOOLEAN, response \in Responses,
          overwrite \in Responses :
          /\ Bind(update_nfo(repo, args, nfo_path, reading, metadata,
                             content_changed, response, overwrite),
                  LAMBDA o :
                      /\ repo' = o.repo
                      /\ args' = o.args
                      /\ counts' = [counts EXCEPT ![o.counter] = @ + 1]
                      /\ renames' = renames \cup o.renamed
                      /\ asked' = asked \cup
                             {[prompt |-> q, force |-> args.force] :
                                  q \in o.asked})
          /\ todo' = todo \ {nfo_path}
    /\ UNCHANGED <<lib, nfo_data_lookup, pending, without_nfo, rpc,
                   otherThanRename>>

\* update_repository_nfos: the summary is logged
update_repository_nfos_summary ==
    /\ rpc = "update"
    /\ todo = {}
    /\ rpc' = "summary"
    /\ UNCHANGED <<args, repo, lib, nfo_data_lookup, todo, pending,
                   without_nfo, counts, renames, asked, otherThanRename>>

RenameNext ==
    \/ main_lookup_step
    \/ main_seasons_begin
    \/ main_media_step
    \/ main_copy_metadata
    \/ main_pending_step
    \/ main_return
    \/ update_repository_nfos_step
    \/ update_repository_nfos_summary

\* the rename script or the repository update runs alone
RenameStart ==
    RenameInit /\ ScanIdle /\ RangesIdle /\ ParseIdle /\ TitleIdle
    /\ ImportIdle
    /\ CallIdle

SpecRename ==
    RenameStart /\ [][RenameNext]_vars

(***************************************************************************)
(* Properties of the rename script and the repository update (SpecRename)  *)
(***************************************************************************)
\* the text of a sidecar name between "One Pace - SxxEyy - " and ".nfo"
RecordText(r) ==
    parse_nfo_filename(r.name).title

\* the variant of a canonical record: the content of the trailing
\* parenthetical of its name, "" when there is none
RecordVariant(r) ==
    TrailingParenthetical(RecordText(r))

\* base and variant are two canonical records of the repository for the
\* same (season, episode) and title; only variant has a variant
VariantPair(base, variant) ==
    /\ {base, variant} \subseteq scan_nfo_files(repo)
    /\ parse_nfo_filename(base.name).ok
    /\ parse_nfo_filename(variant.name).ok
    /\ parse_nfo_filename(base.name).season
           = parse_nfo_filename(variant.name).season
    /\ parse_nfo_filename(base.name).episode
           = parse_nfo_filename(variant.name).episode
    /\ RecordVariant(base) = <<>>
    /\ RecordVariant(variant) # <<>>
    /\ BeforeParenthetical(RecordText(variant)) = RecordText(base)

\* the record is an entry of the sidecar lookup
InLookup(r) ==
    \E k \in DOMAIN nfo_data_lookup : nfo_data_lookup[k].filepath = r

\* the variant of a library file, "" when it has none
FileVariant(p) ==
    Bind(get_episode_from_media(p.name), LAMBDA e :
        IF e.ok THEN e.extended ELSE <<>>)

\* the library file is for the episode of the record and has a variant iff
\* the record has one
FileOfRecord(p, r) ==
    Bind(get_episode_from_media(p.name), LAMBDA e :
        /\ e.ok
        /\ e.season = parse_nfo_filename(r.name).season
        /\ e.number = parse_nfo_filename(r.name).episode
        /\ (e.extended = <<>>) <=> (RecordVariant(r) = <<>>))

\* long is short with " (text)" put before the extension
DifferByVariantSuffix(short, long) ==
    Bind(Slice(short, 1, last_dot(short) - 1), LAMBDA stem :
        /\ Len(long) > Len(short) + 3
        /\ Lit(long, 1, stem \o S_SpaceParen) # 0
        /\ EndsWith(long, <<")">> \o suffix_of(short)))

\* rename.py has built its lookup table
LookupBuilt ==
    rpc \in {"collect", "rename", "done"}

\* C9: when two canonical records share (season, episode) and exactly one
\* has a variant, both are entries of the sidecar lookup, a library file is
\* renamed after the record with the same variant-emptiness as its own, the
\* two target names differ only by the variant suffix, and the rename for
\* one record never replaces a file of the other.
C9_VariantPairKeptApart ==
    LookupBuilt =>
        \A base, variant \in scan_nfo_files(repo) :
            VariantPair(base, variant) =>
                /\ InLookup(base) /\ InLookup(variant)
                /\ \A x \in renames :
                       x.record \in {base, variant} =>
                           /\ (FileVariant(x.source) = <<>>)
                                  <=> (x.record = base)
                           /\ x.removed.origin = "library" =>
                                  ~\E r \in {base, variant} \ {x.record} :
                                       FileOfRecord(x.removed.path, r)
                /\ \A x, y \in renames :
                       (/\ x.record = base /\ y.record = variant
                        /\ x.target.dir = y.target.dir
                        /\ suffix_of(x.target.name) = suffix_of(y.target.name))
                       => DifferByVariantSuffix(x.target.name, y.target.name)

\* C10: a file that is at the target path of a rename and is not the file
\* being renamed is removed or replaced only after an explicit confirmation
\* of that overwrite, in rename_media and in update_repository_nfos.
C10_OverwriteIsConfirmed ==
    \A x \in renames : x.removed # NoContent => x.confirmed

(***************************************************************************)
(* tools/import_episode.py: the title sanitizers and flexible_match        *)
(***************************************************************************)
\* a character outside ASCII that NFD decomposes into "o" and a combining
\* macron
O_Macron ==
    "U+014D"

\* unicodedata.normalize('NFD', title).encode('ascii', 'ignore'): a
\* decomposed character keeps its ASCII base
RECURSIVE ascii_fold(_)
ascii_fold(s) ==
    IF Len(s) = 0 THEN <<>>
    ELSE (IF s[1] = O_Macron THEN <<"o">> ELSE <<s[1]>>)
             \o ascii_fold(Tail(s))

\* str.replace(old, new) for a one-character old
RECURSIVE replace_char(_, _, _)
replace_char(s, old, new) ==
    IF Len(s) = 0 THEN <<>>
    ELSE (IF s[1] = old THEN new ELSE <<s[1]>>)
             \o replace_char(Tail(s), old, new)

\* the dict replacements of apply_title_sanitization, in its order
replacements ==
    << [old |-> ":", new |-> <<" ", "-">>],
       [old |-> "\"", new |-> <<"'">>],
       [old |-> "<", new |-> <<"(">>],
       [old |-> ">", new |-> <<")">>],
       [old |-> "|", new |-> <<"-">>],
       [old |-> "?", new |-> <<>>],
       [old |-> "*", new |-> <<>>],
       [old |-> "/", new |-> <<"-">>],
       [old |-> "\\", new |-> <<"-">>] >>

\* for old, new in replacements.items(): ... replace(old, new), from entry k
RECURSIVE apply_replacements(_, _)
apply_replacements(s, k) ==
    IF k > Len(replacements) THEN s
    ELSE apply_replacements(
             replace_char(s, replacements[k].old, replacements[k].new),
             k + 1)

\* re.sub(r'\s+', ' ', s)
RECURSIVE collapse_spaces(_)
collapse_spaces(s) ==
    IF Len(s) = 0 THEN <<>>
    ELSE IF IsSpace(s[1])
    THEN <<" ">> \o collapse_spaces(Slice(s, SkipSpaces(s, 1), Len(s)))
    ELSE <<s[1]>> \o collapse_spaces(Tail(s))

\* str.strip(chars)
RECURSIVE strip_chars(_, _)
strip_chars(s, chars) ==
    IF Len(s) = 0 THEN s
    ELSE IF s[1] \in chars THEN strip_chars(Tail(s), chars)
    ELSE IF s[Len(s)] \in chars
    THEN strip_chars(SubSeq(s, 1, Len(s) - 1), chars)
    ELSE s

apply_title_sanitization(t) ==
    IF Len(t) = 0 THEN <<>>
    ELSE strip_chars(
             collapse_spaces(apply_replacements(ascii_fold(t), 1)),
             {".", " "})

\* the sanitized title without apostrophes, in lower case
normalize_title_for_comparison(t) ==
    LowerStr(SelectSeq(apply_title_sanitization(t), LAMBDA c : c # "'"))

\* flexible_match.normalize: re.sub(r'[-_.,;:]', ' ', s)
separators_to_spaces(s) ==
    [i \in 1..Len(s) |->
        IF s[i] \in {"-", "_", ".", ",", ";", ":"} THEN " " ELSE s[i]]

\* flexible_match.normalize: re.sub(r"'s\b", 's', s); \b holds after the s
\* when no word character follows it
RECURSIVE drop_possessive(_)
drop_possessive(s) ==
    IF Len(s) = 0 THEN <<>>
    ELSE IF s[1] = "'" /\ At(s, 2) = "s" /\ ~IsWord(At(s, 3))
    THEN <<"s">> \o drop_possessive(Slice(s, 3, Len(s)))
    ELSE <<s[1]>> \o drop_possessive(Tail(s))

\* flexible_match.normalize
match_normalize(s) ==
    Strip(collapse_spaces(drop_possessive(separators_to_spaces(LowerStr(s)))))

\* set(s.split()): the maximal runs without whitespace
split_tokens(s) ==
    {Slice(s, i, j) : <<i, j>> \in
        {p \in (1..Len(s)) \X (1..Len(s)) :
            /\ p[1] <= p[2]
            /\ \A k \in p[1]..p[2] : ~IsSpace(s[k])
            /\ (p[1] = 1 \/ IsSpace(s[p[1] - 1]))
            /\ (p[2] = Len(s) \/ IsSpace(s[p[2] + 1]))}}

\* the Jaccard similarity of the token sets against the threshold, which is
\* in tenths
jaccard_at_least(tokens1, tokens2, tenths) ==
    IF tokens1 = {} \/ tokens2 = {} THEN FALSE
    ELSE Cardinality(tokens1 \cap tokens2) * 10
             >= tenths * Cardinality(tokens1 \cup tokens2)

\* a mutant of contains_either: only the first string is looked for in the
\* second
contains_first_only(norm1, norm2) ==
    Contains(norm2, norm1)

\* "norm1 in norm2 or norm2 in norm1"
contains_either(norm1, norm2) ==
    Contains(norm2, norm1) \/ Contains(norm1, norm2)

flexible_match_normalized(norm1, norm2, tenths) ==
    \/ norm1 = norm2
    \/ contains_either(norm1, norm2)
    \/ jaccard_at_least(split_tokens(norm1), split_tokens(norm2), tenths)

flexible_match(s1, s2, tenths) ==
    flexible_match_normalized(match_normalize(s1), match_normalize(s2),
                              tenths)

(***************************************************************************)
(* The title functions applied to bounded inputs                           *)
(***************************************************************************)
MaxTitleLen == 3

MaxPieces == 3

\* the characters of a title: a letter in both cases, the characters
\* apply_title_sanitization substitutes, whitespace, the dot, the apostrophe
\* and a character outside ASCII
TitleChars ==
    {"a", "A", ":", "\"", "<", ">", "|", "?", "*", "/", "\\", " ", "\t",
     ".", "'", O_Macron}

\* the strings of at most n of the given pieces
RECURSIVE Concats(_, _)
Concats(pieces, n) ==
    IF n = 0 THEN {<<>>}
    ELSE {<<>>} \cup {p \o t : p \in pieces, t \in Concats(pieces, n - 1)}

Titles ==
    Concats({<<c>> : c \in TitleChars}, MaxTitleLen)

\* what the strings given to flexible_match are made of
MatchPieces ==
    {<<"a">>, <<"B">>, <<"'", "s">>, <<" ">>, <<"-">>}

MatchTexts ==
    Concats(MatchPieces, MaxPieces)

\* the thresholds of the calls (0.6 and the default 0.8), in tenths
Thresholds ==
    {6, 8}

TitleInit ==
    \/ /\ tpc = "sanitize"
       /\ raw_title \in Titles
       /\ str1 = <<>>
       /\ str2 = <<>>
       /\ threshold = 0
       /\ sanitized = NoneStr
       /\ resanitized = NoneStr
       /\ normalized = NoneStr
       /\ renormalized = NoneStr
       /\ similar = <<>>
    \/ /\ tpc = "match"
       /\ raw_title = <<>>
       /\ str1 \in MatchTexts
       /\ str2 \in MatchTexts
       /\ threshold \in Thresholds
       /\ sanitized = NoneStr
       /\ resanitized = NoneStr
       /\ normalized = NoneStr
       /\ renormalized = NoneStr
       /\ similar = <<>>

\* apply_title_sanitization(title)
sanitize_call ==
    /\ tpc = "sanitize"
    /\ sanitized' = apply_title_sanitization(raw_title)
    /\ tpc' = "resanitize"
    /\ UNCHANGED <<raw_title, resanitized, normalized, renormalized, str1, str2,
                   threshold, similar, otherThanTitle>>

\* apply_title_sanitization of what it returned
sanitize_again ==
    /\ tpc = "resanitize"
    /\ resanitized' = apply_title_sanitization(sanitized)
    /\ tpc' = "normalize"
    /\ UNCHANGED <<raw_title, sanitized, normalized, renormalized, str1, str2,
                   threshold, similar, otherThanTitle>>

\* normalize_title_for_comparison(title)
normalize_call ==
    /\ tpc = "normalize"
    /\ normalized' = normalize_title_for_comparison(raw_title)
    /\ tpc' = "renormalize"
    /\ UNCHANGED <<raw_title, sanitized, resanitized, renormalized, str1, str2,
                   threshold, similar, otherThanTitle>>

\* normalize_title_for_comparison of what it returned
normalize_again ==
    /\ tpc = "renormalize"
    /\ renormalized' = normalize_title_for_comparison(normalized)
    /\ tpc' = "done"
    /\ UNCHANGED <<raw_title, sanitized, resanitized, normalized, str1, str2,
                   threshold, similar, otherThanTitle>>

\* flexible_match of the pair, of the swapped pair and of str1 with itself
flexible_match_call ==
    /\ tpc = "match"
    /\ similar' = [forward |-> flexible_match(str1, str2, threshold),
                   backward |-> flexible_match(str2, str1, threshold),
                   self |-> flexible_match(str1, str1, threshold)]
    /\ tpc' = "done"
    /\ UNCHANGED <<raw_title, sanitized, resanitized, normalized, renormalized,
                   str1, str2, threshold, otherThanTitle>>

TitleNext ==
    \/ sanitize_call
    \/ sanitize_again
    \/ normalize_call
    \/ normalize_again
    \/ flexible_match_call

\* the title functions run alone
TitleStart ==
    TitleInit /\ ScanIdle /\ RangesIdle /\ ParseIdle /\ RenameIdle
    /\ ImportIdle
    /\ CallIdle

SpecTitle ==
    TitleStart /\ [][TitleNext]_vars

\* C19: apply_title_sanitization and normalize_title_for_comparison are
\* idempotent: applied to their own result, they return it unchanged
C19_NormalizersIdempotent ==
    tpc = "done" /\ sanitized # NoneStr
        => resanitized = sanitized /\ renormalized = normalized

\* apply_title_sanitization alone is idempotent
SanitizationIdempotent ==
    resanitized # NoneStr => resanitized = sanitized

\* C20: flexible_match holds of a string and itself, and of a pair whenever
\* it holds of the swapped pair, at every threshold
C20_MatchReflexiveSymmetric ==
    tpc = "done" /\ similar # <<>>
        => similar.self /\ (similar.forward <=> similar.backward)

\* a pair that only the token similarity matches, and a pair nothing matches
C20_Witness ==
    /\ tpc = "done"
    /\ similar # <<>>
    /\ similar.forward
    /\ match_normalize(str1) # match_normalize(str2)
    /\ ~contains_either(match_normalize(str1), match_normalize(str2))

(***************************************************************************)
(* The counters and the prompts of the repository update                   *)
(***************************************************************************)
\* updated_count + unchanged_count + skipped_count + failed_count
CountSum(c) ==
    c.updated + c.unchanged + c.skipped + c.failed

\* the iteration changed a file of the repository: a path is new or holds
\* another content
Wrote(before, after) ==
    \E p \in DOMAIN after : p \notin DOMAIN before \/ after[p] # before[p]

C18_ForceAsksNothing ==
    \A q \in asked : ~q.force

\* the library files whose season get_episode_from_media cannot resolve
Unresolved(tree) ==
    {p \in DOMAIN tree : get_episode_from_media(p.name).ok
                         /\ get_episode_from_media(p.name).season = NoneInt}

\* C15: a library file whose season cannot be resolved is skipped and the run
\* goes on without raising: the script does not end in an exception, and no
\* rename has such a file as its source
C15_UnresolvedFileIsSkipped ==
    /\ rpc # "raised"
    /\ \A x \in renames : x.source \notin Unresolved(lib)
(***************************************************************************)
(* tools/import_episode.py: the data sources and the episode metadata      *)
(***************************************************************************)
I_Dawn ==
    <<"D", "a", "w", "n">>

I_Date1 ==
    <<"2", "0", "2", "0", "-", "0", "1", "-", "0", "2">>

I_Date2 ==
    <<"2", "0", "2", "1", ".", "0", "3", ".", "0", "4">>

I_GuideDate ==
    <<"2", "0", "1", "9", ".", "0", "5", ".", "0", "6">>

\* not x, of an int or None
Falsy(n) ==
    n = NoneInt \/ n = 0

\* not s, of a str or None
NoText(s) ==
    s = NoneStr \/ s = <<>>

\* [^()]*(?:\([^()]*\)[^()]*)* matches the whole of s from position k on:
\* parentheses come in pairs that hold no parenthesis; inside tells
\* whether position k is within a pair
RECURSIVE flat_parens(_, _, _)
flat_parens(s, k, inside) ==
    IF k > Len(s) THEN ~inside
    ELSE IF s[k] = "(" THEN ~inside /\ flat_parens(s, k + 1, TRUE)
    ELSE IF s[k] = ")" THEN inside /\ flat_parens(s, k + 1, FALSE)
    ELSE flat_parens(s, k + 1, inside)

\* the position of the last parenthesis of either kind, 0 when none
RECURSIVE last_paren(_, _)
last_paren(s, k) ==
    IF k = 0 THEN 0
    ELSE IF s[k] \in {"(", ")"} THEN k
    ELSE last_paren(s, k - 1)

\* re.findall(r'\(([^()]*(?:\([^()]*\)[^()]*)*)\)(?:[^()]*?)$', s): the
\* match ends at the end of s, so there is one match at most, and it closes
\* at the last parenthesis of s
suffix_matches(s) ==
    Bind(last_paren(s, Len(s)), LAMBDA j :
        IF j = 0 \/ At(s, j) # ")" THEN <<>>
        ELSE Bind(FirstPos(s, 1, LAMBDA i :
                      /\ i < j
                      /\ s[i] = "("
                      /\ flat_parens(Slice(s, i + 1, j - 1), 1, FALSE)),
                  LAMBDA i : IF i = 0 THEN <<>>
                             ELSE <<Slice(s, i + 1, j - 1)>>))

\* get_special_episode_suffix
get_special_episode_suffix(filename) ==
    Bind(suffix_matches(filename), LAMBDA matches :
        IF /\ Len(matches) > 0
           /\ \/ Lit(matches[1], 1, S_Extended) # 0
              \/ Lit(matches[1], 1, S_Alternate) # 0
        THEN matches[1]
        ELSE IF Contains(LowerStr(filename), S_extended) THEN S_Extended
        ELSE <<>>)

\* f" ({suffix})"
suffix_text(suffix) ==
    <<" ", "(">> \o suffix \o <<")">>

\* title.replace(f" ({suffix})", "").strip() for the suffix of the title,
\* the title itself when it has none
title_base(title) ==
    Bind(get_special_episode_suffix(title), LAMBDA suffix :
        IF suffix = <<>> THEN title
        ELSE Strip(replace_text(title, suffix_text(suffix), <<>>)))

\* f"{base} ({final_suffix})" if final_suffix else base
with_suffix(base, final_suffix) ==
    IF final_suffix = <<>> THEN base ELSE base \o suffix_text(final_suffix)

\* f"S{season:02d}E{episode:02d}": the key of title_plot_data and of the
\* date cache
cache_key(season, episode) ==
    <<"S">> \o TwoDigits(season) \o <<"E">> \o TwoDigits(episode)

\* seasons.json as load_seasons_mapping reads it for the import tool: the
\* arcs of the rename script and Alabasta, in the order of the file
seasons_mapping ==
    rename_seasons \o <<[title |-> T_Alabasta, no |-> 12]>>

\* Config.retry_attempts, the argument of stop_after_attempt
RetryAttempts ==
    3

\* title_plot_data as _parse_csv returns it for the sheet: key -> title_en
CsvTable ==
    (cache_key(5, 3) :> U_Bar)
        @@ (cache_key(5, 103) :> U_Bar)

\* title_plot_data of DataSourceManager.__init__
NoCsv ==
    <<>>

\* the row _extract_episode_data found for an episode
HtmlData(premiered, anime_episodes) ==
    [premiered |-> premiered, anime_episodes |-> anime_episodes]

\* the episode guide as the fetch returns it: the .html files of the zip in
\* namelist order, each with the rows of its table by episode number
Guide ==
    << [file_base |-> A_Five,
        rows |-> (3 :> HtmlData(I_GuideDate, <<45>>))
                     @@ (103 :> HtmlData(<<>>, <<45>>))] >>

\* ep_guide_zip_content of DataSourceManager.__init__
NoGuide ==
    <<>>

\* _get_episode_data_from_arc: the row of the first file whose stem matches
\* the arc, {} as an empty row
get_episode_data_from_arc(guide, arc_name, episode_num) ==
    Bind(FirstPos(guide, 1, LAMBDA k :
                      /\ k <= Len(guide)
                      /\ flexible_match(arc_name, guide[k].file_base, 8)),
         LAMBDA k :
             IF k = 0 \/ episode_num \notin DOMAIN guide[k].rows
             THEN HtmlData(<<>>, <<>>)
             ELSE guide[k].rows[episode_num])

\* EpisodeInfo
EpisodeInfo(season, episode, title, arc_name) ==
    [season |-> season, episode |-> episode, title |-> title,
     arc_name |-> arc_name]

\* the first season of seasons_mapping.items() whose name is in the title
arc_in_title(title) ==
    IF NoText(title) THEN 0
    ELSE FirstPos(seasons_mapping, 1, LAMBDA k :
             /\ k <= Len(seasons_mapping)
             /\ Contains(LowerStr(title), LowerStr(seasons_mapping[k].title)))

\* the first season of seasons_mapping.items() with the number
arc_of_season(season) ==
    FirstPos(seasons_mapping, 1, LAMBDA k :
        k <= Len(seasons_mapping) /\ seasons_mapping[k].no = season)

\* "if name.lower() == normalized_arc.lower()" over seasons_mapping.items():
\* the first season of that name, 0 when there is none
season_of_arc(arc_name) ==
    FirstPos(seasons_mapping, 1, LAMBDA k :
        /\ k <= Len(seasons_mapping)
        /\ LowerStr(seasons_mapping[k].title)
               = LowerStr(replace_text(arc_name, S_Whiskey, S_Whisky)))

\* get_episode_metadata, "Auto-detect season and arc": the season and the
\* arc name after it
detect_season(info) ==
    IF Falsy(info.season)
    THEN IF ~NoText(info.arc_name)
         THEN Bind(season_of_arc(info.arc_name), LAMBDA k :
                  [season |-> IF k = 0 THEN info.season
                              ELSE seasons_mapping[k].no,
                   arc_name |-> info.arc_name])
         ELSE Bind(arc_in_title(info.title), LAMBDA k :
                  IF k = 0
                  THEN [season |-> info.season, arc_name |-> info.arc_name]
                  ELSE [season |-> seasons_mapping[k].no,
                        arc_name |-> seasons_mapping[k].title])
    ELSE IF ~NoText(info.arc_name)
    THEN [season |-> info.season, arc_name |-> info.arc_name]
    ELSE Bind(arc_in_title(info.title), LAMBDA k :
             IF k # 0
             THEN [season |-> info.season,
                   arc_name |-> seasons_mapping[k].title]
             ELSE Bind(arc_of_season(info.season), LAMBDA r :
                      [season |-> info.season,
                       arc_name |-> IF r = 0 THEN info.arc_name
                                    ELSE seasons_mapping[r].title]))

\* the answers the prompt of _handle_title_conflict accepts
TitleChoices ==
    {"1", "2", "3", "4", "q"}

\* what _handle_title_conflict did: the title it returned, the preference
\* it left, whether it asked, whether it left the program with sys.exit(0)
Resolution(title, preference, prompted, quit) ==
    [title |-> title, preference |-> preference, prompted |-> prompted,
     quit |-> quit]

\* a resolver that takes the title of the table when no preference is set
handle_title_conflict_guess(csv_title, media_title, preference, choice) ==
    IF preference = "media"
    THEN Resolution(media_title, preference, FALSE, FALSE)
    ELSE Resolution(csv_title, preference, FALSE, FALSE)

\* a resolver whose "always" answers hold for the one episode only
handle_title_conflict_once(csv_title, media_title, preference, choice) ==
    IF preference = "csv"
    THEN Resolution(csv_title, preference, FALSE, FALSE)
    ELSE IF preference = "media"
    THEN Resolution(media_title, preference, FALSE, FALSE)
    ELSE IF choice \in {"1", "3"}
    THEN Resolution(csv_title, preference, TRUE, FALSE)
    ELSE IF choice \in {"2", "4"}
    THEN Resolution(media_title, preference, TRUE, FALSE)
    ELSE Resolution(<<>>, preference, TRUE, TRUE)

\* DataSourceManager._handle_title_conflict; choice is the first answer the
\* prompt accepts
handle_title_conflict(csv_title, media_title, preference, choice) ==
    IF preference = "csv"
    THEN Resolution(csv_title, preference, FALSE, FALSE)
    ELSE IF preference = "media"
    THEN Resolution(media_title, preference, FALSE, FALSE)
    ELSE IF choice = "1" THEN Resolution(csv_title, preference, TRUE, FALSE)
    ELSE IF choice = "2" THEN Resolution(media_title, preference, TRUE, FALSE)
    ELSE IF choice = "3" THEN Resolution(csv_title, "csv", TRUE, FALSE)
    ELSE IF choice = "4" THEN Resolution(media_title, "media", TRUE, FALSE)
    ELSE Resolution(<<>>, preference, TRUE, TRUE)

\* the title get_episode_metadata settled on: whether the table and the
\* file disagreed, the two titles offered, and what the resolver did
Merged(title, conflict, csv_option, media_option, resolution) ==
    [title |-> title, conflict |-> conflict, csv_option |-> csv_option,
     media_option |-> media_option, prompted |-> resolution.prompted,
     preference |-> resolution.preference, quit |-> resolution.quit]

\* csv_base_normalized != media_base_normalized and csv_title_base and
\* media_title_base
titles_conflict(csv_title_base, media_title_base) ==
    /\ normalize_title_for_comparison(csv_title_base)
           # normalize_title_for_comparison(media_title_base)
    /\ csv_title_base # <<>>
    /\ media_title_base # <<>>

\* get_episode_metadata, the branch of a conflict: the resolver is given the
\* two bases with the final suffix, and the final suffix replaces the suffix
\* of the title it returns
resolve_conflict(csv_option, media_option, final_suffix, preference, choice) ==
    Bind(handle_title_conflict(csv_option, media_option, preference, choice),
         LAMBDA r :
             Merged(IF r.quit THEN <<>>
                    ELSE with_suffix(title_base(r.title), final_suffix),
                    TRUE, csv_option, media_option, r))

\* get_episode_metadata, "Handle title comparison if CSV has a different
\* title", for a title of the table that is not empty
compare_titles(csv_title, media_title, final_suffix, preference, choice) ==
    IF titles_conflict(title_base(csv_title), title_base(media_title))
    THEN resolve_conflict(with_suffix(title_base(csv_title), final_suffix),
                          with_suffix(title_base(media_title), final_suffix),
                          final_suffix, preference, choice)
    ELSE Merged(IF /\ final_suffix # <<>>
                   /\ ~EndsWith(csv_title,
                                <<"(">> \o final_suffix \o <<")">>)
                THEN with_suffix(title_base(csv_title), final_suffix)
                ELSE csv_title,
                FALSE, <<>>, <<>>,
                Resolution(<<>>, preference, FALSE, FALSE))

\* special_suffix or csv_suffix or media_suffix
final_suffix_of(special_suffix, csv_title, media_title) ==
    IF special_suffix # <<>> THEN special_suffix
    ELSE IF get_special_episode_suffix(csv_title) # <<>>
    THEN get_special_episode_suffix(csv_title)
    ELSE get_special_episode_suffix(media_title)

\* get_episode_metadata, "Merge with title/plot data from CSV": the title
\* of the file stays when the table has no title under the key
merge_title(table, key, media_title, special_suffix, preference, choice) ==
    IF key \in DOMAIN table /\ table[key] # <<>>
    THEN compare_titles(table[key], media_title,
                        final_suffix_of(special_suffix, table[key],
                                        media_title),
                        preference, choice)
    ELSE Merged(media_title, FALSE, <<>>, <<>>,
                Resolution(<<>>, preference, FALSE, FALSE))

\* the metadata dict, with what the title resolver did
Metadata(season, episode, merged, html_data) ==
    [season |-> season, episode |-> episode, title |-> merged.title,
     premiered |-> html_data.premiered,
     anime_episodes |-> html_data.anime_episodes,
     conflict |-> merged.conflict, csv_option |-> merged.csv_option,
     media_option |-> merged.media_option, prompted |-> merged.prompted,
     preference |-> merged.preference, quit |-> merged.quit]

\* episode_info.title or ''
title_or_empty(title) ==
    IF title = NoneStr THEN <<>> ELSE title

\* DataSourceManager.get_episode_metadata
get_episode_metadata(info, filename, table, guide, preference, choice) ==
    Bind(detect_season(info), LAMBDA d :
        IF Falsy(d.season) \/ Falsy(info.episode)
        THEN Metadata(d.season, info.episode,
                      Merged(title_or_empty(info.title), FALSE, <<>>, <<>>,
                             Resolution(<<>>, preference, FALSE, FALSE)),
                      HtmlData(<<>>, <<>>))
        ELSE Metadata(d.season, info.episode,
                      merge_title(table, cache_key(d.season, info.episode),
                                  title_or_empty(info.title),
                                  get_special_episode_suffix(filename),
                                  preference, choice),
                      IF NoText(d.arc_name) THEN HtmlData(<<>>, <<>>)
                      ELSE get_episode_data_from_arc(guide, d.arc_name,
                                                     info.episode)))
(***************************************************************************)
(* tools/import_episode.py: the file operations and the cleanup            *)
(***************************************************************************)
I_Library ==
    <<"l", "i", "b", "r", "a", "r", "y">>

I_Repository ==
    <<"r", "e", "p", "o", "s", "i", "t", "o", "r", "y">>

I_Source ==
    <<"s", "o", "u", "r", "c", "e">>

I_OnePaceDir ==
    <<"O", "n", "e", " ", "P", "a", "c", "e">>

I_FooMkv ==
    <<"O", "n", "e", " ", "P", "a", "c", "e", " ", "-", " ", "S", "0", "5", "E", "0", "3", " ", "-", " ", "F", "o", "o", ".", "m", "k", "v">>

I_FooMp4 ==
    <<"O", "n", "e", " ", "P", "a", "c", "e", " ", "-", " ", "S", "0", "5", "E", "0", "3", " ", "-", " ", "F", "o", "o", ".", "m", "p", "4">>

I_FooExtMkv ==
    <<"O", "n", "e", " ", "P", "a", "c", "e", " ", "-", " ", "S", "0", "5", "E", "1", "0", "3", " ", "-", " ", "F", "o", "o", " ", "(", "E", "x", "t", "e", "n", "d", "e", "d", ")", ".", "m", "k", "v">>

I_OldFooNfo ==
    <<"O", "n", "e", " ", "P", "a", "c", "e", " ", "-", " ", "S", "0", "5", "E", "0", "3", " ", "-", " ", "O", "l", "d", ".", "n", "f", "o">>

I_Original45 ==
    <<"O", "n", "e", " ", "P", "i", "e", "c", "e", " ", "0", "4", "5", ".", "m", "k", "v">>

S_OnePaceLower ==
    <<"o", "n", "e", " ", "p", "a", "c", "e">>

S_OnePaceDashLower ==
    <<"o", "n", "e", "-", "p", "a", "c", "e">>

\* config.library_path
LibraryRoot ==
    <<I_Library>>

\* config.repository_path
RepositoryRoot ==
    <<I_Repository>>

\* config.source_path
SourceRoot ==
    <<I_Source>>

\* Path(config.library_path) / f"Season {season}" and
\* Path(config.repository_path) / "One Pace" / f"Season {season}"
target_dirs(season) ==
    << LibraryRoot \o <<S_SeasonSpace \o IntToStr(season)>>,
       RepositoryRoot \o <<I_OnePaceDir, S_SeasonSpace \o IntToStr(season)>> >>

\* what a file holds: a video (title: the name it was made under), a
\* sidecar (what generate_nfo_content wrote into it), or the part of a file
\* that a write left when it failed
FileBody(kind, title, season, episode, premiered) ==
    [kind |-> kind, title |-> title, season |-> season,
     episode |-> episode, premiered |-> premiered]

\* what a write that failed part-way leaves at its path
PartialBody ==
    FileBody("partial", <<>>, NoneInt, NoneInt, <<>>)

\* no sidecar: nfo_content = None
NoNfo ==
    FileBody("none", <<>>, NoneInt, NoneInt, <<>>)

\* the directories and the files of the machine
Disk(dirs, files) ==
    [dirs |-> dirs, files |-> files]

\* Path.mkdir(parents=True, exist_ok=True)
mkdir_parents(d, dir) ==
    Disk(d.dirs \cup {SubSeq(dir, 1, k) : k \in 1..Len(dir)}, d.files)

\* shutil.copy2 and Path.write_text: the file at the path holds the body
write_file(d, path, body) ==
    Disk(d.dirs, tree_write(d.files, path, body))

\* Path.unlink(missing_ok=True)
unlink(d, path) ==
    Disk(d.dirs, [p \in DOMAIN d.files \ {path} |-> d.files[p]])

\* for path in paths: Path(path).unlink(missing_ok=True)
unlink_all(d, paths) ==
    Disk(d.dirs, [p \in DOMAIN d.files \ paths |-> d.files[p]])

\* episode_data.premiered.replace('.', '-')
dashed(date) ==
    replace_char(date, ".", <<"-">>)

\* date_input.replace('-', '.')
dotted(date) ==
    replace_char(date, "-", <<".">>)

\* MetadataProcessor.generate_nfo_content: title, season, episode and
\* premiered of the sidecar
generate_nfo_content(title, season, episode, premiered) ==
    FileBody("nfo", title, season, episode, dashed(premiered))

\* FileOperationsManager.generate_plex_filename
generate_plex_filename(season, episode, title) ==
    S_OnePace \o S_SpaceDashSpace \o cache_key(season, episode)
        \o S_SpaceDashSpace \o apply_title_sanitization(title)

\* fnmatch of f"*S{season:02d}E{episode:02d}*.nfo" or f"*S{season}E{episode}*.nfo"
nfo_glob_matches(name, season, episode) ==
    /\ EndsWith(name, S_DotNfo)
    /\ \/ Contains(Slice(name, 1, Len(name) - 4), cache_key(season, episode))
       \/ Contains(Slice(name, 1, Len(name) - 4),
                   <<"S">> \o IntToStr(season) \o <<"E">> \o IntToStr(episode))

\* MetadataProcessor.check_existing_nfo over library_path and
\* repository_path: whether one of them holds a sidecar of the episode
\* (Path.glob does not descend into the season folders)
check_existing_nfo(d, season, episode) ==
    \E p \in DOMAIN d.files :
        /\ p.dir \in {LibraryRoot, RepositoryRoot}
        /\ nfo_glob_matches(p.name, season, episode)

\* one step of copy_files: "mkdir", "copy" or "write" at a path
Step(op, path, body) ==
    [op |-> op, path |-> path, body |-> body]

\* the steps of copy_files for one target directory: the folder is made
\* before config.dry_run is looked at
target_steps(d, source, target_dir, filename, nfo, dry_run) ==
    <<Step("mkdir", LibPath(target_dir, <<>>), NoNfo)>>
    \o (IF dry_run THEN <<>>
        ELSE <<Step("copy", LibPath(target_dir, filename), d.files[source])>>
             \o (IF nfo = NoNfo THEN <<>>
                 ELSE <<Step("write",
                             with_suffix_nfo(LibPath(target_dir, filename)),
                             nfo)>>))

\* the steps of copy_files over its targets, in order
RECURSIVE batch_steps(_, _, _, _, _, _)
batch_steps(d, source, targets, filename, nfo, dry_run) ==
    IF Len(targets) = 0 THEN <<>>
    ELSE target_steps(d, source, targets[1], filename, nfo, dry_run)
         \o batch_steps(d, source, Tail(targets), filename, nfo, dry_run)

\* no step of the batch fails
NoFailure ==
    [at |-> 0, partial |-> FALSE]

\* the ways a batch may fail: at a copy or at a write, either before the
\* file is opened or after a part of it is on disk
Failures(steps) ==
    {NoFailure}
    \cup {[at |-> k, partial |-> b] :
              k \in {j \in 1..Len(steps) : steps[j].op # "mkdir"},
              b \in BOOLEAN}

\* the disk after a step
apply_step(d, step) ==
    IF step.op = "mkdir" THEN mkdir_parents(d, step.path.dir)
    ELSE write_file(d, step.path, step.body)

\* the disk a step leaves when it raises
failed_step(d, step, partial) ==
    IF partial THEN write_file(d, step.path, PartialBody) ELSE d

\* what a batch did: the disk it left and whether it raised
Batch(d, raised) ==
    [disk |-> d, raised |-> raised]

\* batch_operation around the steps from k on: a path is appended to
\* completed after its copy or write returned; on an exception the paths of
\* completed are unlinked and the exception is raised again
RECURSIVE batch_operation(_, _, _, _, _)
batch_operation(d, steps, k, failure, completed) ==
    IF k > Len(steps) THEN Batch(d, FALSE)
    ELSE IF failure.at = k
    THEN Batch(unlink_all(failed_step(d, steps[k], failure.partial),
                          completed), TRUE)
    ELSE batch_operation(apply_step(d, steps[k]), steps, k + 1, failure,
                         IF steps[k].op = "mkdir" THEN completed
                         ELSE completed \cup {steps[k].path})

\* FileOperationsManager.copy_files
copy_files(d, source, targets, filename, nfo, dry_run, failure) ==
    batch_operation(d, batch_steps(d, source, targets, filename, nfo, dry_run),
                    1, failure, {})

\* re.search(r's\d+e\d+', filename)
has_season_episode(filename) ==
    \E i \in 1..Len(filename) :
        /\ filename[i] = "s"
        /\ DigitsEnd(filename, i + 1) # 0
        /\ At(filename, DigitsEnd(filename, i + 1)) = "e"
        /\ IsDigit(At(filename, DigitsEnd(filename, i + 1) + 1))

\* regex 0* (greedy or not): the positions it may end at, from position i
RECURSIVE after_zeros(_, _)
after_zeros(s, i) ==
    {i} \cup (IF At(s, i) = "0" THEN after_zeros(s, i + 1) ELSE {})

\* re.search(rf'(?:^|[^\d])0*{ep}(?:[^\d]|$)', filename); the four patterns
\* before it in the list match only where this one matches as well
matches_episode(filename, ep) ==
    \E i \in 1..Len(filename) :
        /\ i = 1 \/ ~IsDigit(filename[i - 1])
        /\ \E z \in after_zeros(filename, i) :
               /\ Lit(filename, z, IntToStr(ep)) # 0
               /\ ~IsDigit(At(filename, Lit(filename, z, IntToStr(ep))))

\* CleanupManager.find_original_episodes
find_original_episodes(d, episodes, path) ==
    IF Len(episodes) = 0 \/ path \notin d.dirs THEN {}
    ELSE {f \in DOMAIN d.files :
              /\ Len(f.dir) >= Len(path)
              /\ SubSeq(f.dir, 1, Len(path)) = path
              /\ \E ext \in {S_DotNfo, S_DotMkv, S_DotMp4} :
                     EndsWith(f.name, ext)
              /\ ~Contains(LowerStr(f.name), S_OnePaceLower)
              /\ ~Contains(LowerStr(f.name), S_OnePaceDashLower)
              /\ ~has_season_episode(LowerStr(f.name))
              /\ \E k \in 1..Len(episodes) :
                     matches_episode(LowerStr(f.name), episodes[k])}

\* CleanupManager.perform_cleanup over the paths from k on: the files found
\* under a path are deleted when the operator answers yes for it
RECURSIVE cleanup_paths(_, _, _, _, _)
cleanup_paths(d, anime_episodes, paths, answers, k) ==
    IF k > Len(paths) THEN d
    ELSE cleanup_paths(
             IF answers[k]
             THEN unlink_all(d, find_original_episodes(d, anime_episodes,
                                                       paths[k]))
             ELSE d,
             anime_episodes, paths, answers, k + 1)

\* CleanupManager.perform_cleanup: both cleanups are enabled
perform_cleanup(d, anime_episodes, answers) ==
    cleanup_paths(d, anime_episodes, <<RepositoryRoot, LibraryRoot>>,
                  answers, 1)

\* a deletion that does not look at config.dry_run
delete_processed_video_always(d, video_filepath, dry_run, force, response) ==
    IF ~dry_run /\ ~force /\ response \notin {"y", "a"}
    THEN [disk |-> d, force |-> force]
    ELSE [disk |-> unlink(d, video_filepath),
          force |-> force \/ response = "a"]

\* CleanupManager.delete_processed_video: the disk and the force flag after
\* it; response is the answer to its prompt
delete_processed_video(d, video_filepath, dry_run, force, response) ==
    IF dry_run THEN [disk |-> d, force |-> force]
    ELSE IF ~force /\ response \notin {"y", "a"}
    THEN [disk |-> d, force |-> force]
    ELSE [disk |-> unlink(d, video_filepath),
          force |-> force \/ response = "a"]
(***************************************************************************)
(* tools/import_episode.py: FilenameParser                                 *)
(***************************************************************************)

I_AlabastaLegacy ==
    <<"[", "O", "n", "e", " ", "P", "a", "c", "e", "]", "[", "1", "-", "1", "0", "]", " ", "A", "l", "a", "b", "a", "s", "t", "a", " ", "0", "5", " ", "[", "1", "0", "8", "0", "p", "]", "[", "A", "B", "C", "D", "1", "2", "3", "4", "]", ".", "m", "k", "v">>

\* Path(filename).stem: the name without its last suffix
stem(filename) ==
    Bind(last_dot(filename), LAMBDA d :
        IF d = 0 \/ d = Len(filename) THEN filename
        ELSE Slice(filename, 1, d - 1))

\* PATTERNS['plex'][0] matched at position i of the stem: (.+) takes the
\* rest, and one space of the \s* before it when nothing else is left
import_plex_dash_at(s, i) ==
    Bind(plex_head_at(s, i), LAMBDA h :
        IF h.ok /\ h.after_dash <= Len(s)
        THEN [ok |-> TRUE, groups |->
                 <<h.season, h.episode,
                   Slice(s, IF h.next <= Len(s) THEN h.next ELSE Len(s),
                         Len(s))>>]
        ELSE [ok |-> FALSE])

\* PATTERNS['plex'][1] matched at position i of the stem
import_plex_space_at(s, i) ==
    Bind(LitCI(s, spaces_at(s, LitCI(s, i, S_OnePace)), <<"S">>), LAMBDA p3 :
    Bind(IF p3 = 0 THEN 0 ELSE DigitsEnd(s, p3), LAMBDA p4 :
    Bind(IF p4 = 0 THEN 0 ELSE LitCI(s, p4, <<"E">>), LAMBDA p5 :
    Bind(IF p5 = 0 THEN 0 ELSE DigitsEnd(s, p5), LAMBDA p6 :
        IF p6 # 0 /\ IsSpace(At(s, p6)) /\ p6 + 1 <= Len(s)
        THEN [ok |-> TRUE, groups |->
                 <<DigitsToInt(Slice(s, p3, p4 - 1)),
                   DigitsToInt(Slice(s, p5, p6 - 1)),
                   Slice(s, IF SkipSpaces(s, p6) <= Len(s)
                            THEN SkipSpaces(s, p6) ELSE Len(s), Len(s))>>]
        ELSE [ok |-> FALSE]))))

\* the patterns of compiled_patterns in the order parse tries them: the four
\* of 'original', then the two of 'plex'
pattern_at(k, s, i) ==
    IF k <= 4 THEN original_at(k, s, i)
    ELSE IF k = 5 THEN import_plex_dash_at(s, i)
    ELSE import_plex_space_at(s, i)

\* pattern.search(filename_without_ext): the leftmost match
pattern_search(k, s) ==
    Bind(FirstPos(s, 1, LAMBDA i : pattern_at(k, s, i).ok), LAMBDA i :
        IF i = 0 THEN [ok |-> FALSE] ELSE pattern_at(k, s, i))

\* FilenameParser._extract_info
extract_info(groups, format_type) ==
    IF format_type = "plex"
    THEN EpisodeInfo(groups[1], groups[2], Strip(groups[3]), NoneStr)
    ELSE Bind(replace_text(Strip(groups[1]), S_Whiskey, S_Whisky),
              LAMBDA arc_name :
                  EpisodeInfo(NoneInt, DigitsToInt(groups[2]), arc_name,
                              arc_name))

\* FilenameParser._extract_title_from_media, from the movie name of the
\* file's general track (None when the file has none or cannot be read)
extract_title_from_media(movie_name, filename) ==
    IF NoText(movie_name) THEN NoneStr
    ELSE Bind(IF Contains(movie_name, <<"-">>)
              THEN Strip(Slice(movie_name,
                               FirstPos(movie_name, 1, LAMBDA k :
                                   At(movie_name, k) = "-") + 1,
                               Len(movie_name)))
              ELSE movie_name, LAMBDA episode_title :
         Bind(get_special_episode_suffix(filename), LAMBDA special_suffix :
             IF NoText(special_suffix) THEN episode_title
             ELSE episode_title \o S_SpaceParen \o special_suffix \o <<")">>))

\* parse, "for original format files, always try to get a better title"
with_media_title(info, format_type, media_title) ==
    IF format_type = "original"
    THEN IF NoText(media_title) THEN info
         ELSE [info EXCEPT !.title = media_title]
    ELSE IF NoText(info.title) THEN [info EXCEPT !.title = media_title]
    ELSE info

\* the format type of a pattern of compiled_patterns
format_type_of(k) ==
    IF k <= 4 THEN "original" ELSE "plex"

\* parse, "if no pattern matched but we have a filepath"
no_match_info(media_title) ==
    EpisodeInfo(NoneInt, NoneInt, media_title, NoneStr)

\* the loops of parse from pattern k on: the first pattern that matches the
\* stem decides
RECURSIVE parse_from(_, _, _)
parse_from(k, filename, media_title) ==
    IF k > 6 THEN no_match_info(media_title)
    ELSE Bind(pattern_search(k, stem(filename)), LAMBDA match :
             IF match.ok
             THEN with_media_title(extract_info(match.groups,
                                                format_type_of(k)),
                                   format_type_of(k), media_title)
             ELSE parse_from(k + 1, filename, media_title))

\* FilenameParser.parse with a filepath
parse(filename, movie_name) ==
    parse_from(1, filename, extract_title_from_media(movie_name, filename))
(***************************************************************************)
(* tools/import_episode.py: main and process_episode                       *)
(***************************************************************************)
I_BadDate ==
    <<"2", "0", "2", "0", "-", "1", "-", "2">>

\* VideoFile
VideoFile(filename, extension, parsed_info) ==
    [filepath |-> LibPath(SourceRoot, filename), filename |-> filename,
     extension |-> extension, parsed_info |-> parsed_info]

\* the video files scan_directory may find in the source folder, as
\* FilenameParser.parse reads their names, in the order of their names: two
\* files of one episode, an episode of three digits with a variant, a
\* legacy name whose arc seasons.json does not hold, and a legacy name of
\* the Alabasta arc whose file holds no movie name
ScannedVideos ==
    << VideoFile(I_FooMkv, S_DotMkv, EpisodeInfo(5, 3, U_Foo, NoneStr)),
       VideoFile(I_FooMp4, S_DotMp4, EpisodeInfo(5, 3, U_Foo, NoneStr)),
       VideoFile(I_FooExtMkv, S_DotMkv,
                 EpisodeInfo(5, 103, U_FooExt, NoneStr)),
       VideoFile(M_LegacyDawn, S_DotMkv,
                 EpisodeInfo(NoneInt, 1, I_Dawn, I_Dawn)),
       VideoFile(I_AlabastaLegacy, S_DotMkv,
                 parse(I_AlabastaLegacy, NoneStr)) >>

\* the video files of one run
MaxVideos ==
    2

\* the source folders of the model: each holds at most n files that follow
\* one another in the scan, from file k on
VideoLists(n, k) ==
    {<<>>} \cup
        {SubSeq(ScannedVideos, w[1], w[2]) :
             w \in {w \in (k..Len(ScannedVideos)) \X (k..Len(ScannedVideos)) :
                        w[1] <= w[2] /\ w[2] < w[1] + n}}

\* a video file as it lies in the source folder
video_body(filename) ==
    FileBody("video", filename, NoneInt, NoneInt, <<>>)

\* the source folder with the video files of the run
source_files(queue) ==
    [p \in {queue[k].filepath : k \in 1..Len(queue)} |-> video_body(p.name)]

\* the folders every machine of the model has
RootDirs ==
    {SourceRoot, LibraryRoot, RepositoryRoot, RepositoryRoot \o <<I_OnePaceDir>>}

\* a library that has not seen the tool: no season folder
fresh_disk(queue) ==
    Disk(RootDirs, source_files(queue))

\* a library in use: the folders of season 5, an earlier copy of an episode
\* under the name the tool gives it, a sidecar of that episode and an
\* episode of the original anime in the library folder
used_disk(queue) ==
    Disk(RootDirs \cup {target_dirs(5)[1], target_dirs(5)[2]},
         source_files(queue)
             @@ (LibPath(target_dirs(5)[1], I_FooMkv) :> video_body(I_OldFooNfo))
             @@ (LibPath(LibraryRoot, I_OldFooNfo)
                     :> FileBody("nfo", U_Foo, 5, 3, I_Date1))
             @@ (LibPath(LibraryRoot, I_Original45)
                     :> video_body(I_Original45)))

\* what the operator may type at the date prompt
DateAnswers ==
    {I_Date1, I_Date2, I_BadDate}

\* re.match(r'^\d{4}[-\.]\d{2}[-\.]\d{2}$', date_input)
valid_date(s) ==
    /\ Len(s) = 10
    /\ \A k \in {1, 2, 3, 4, 6, 7, 9, 10} : IsDigit(s[k])
    /\ s[5] \in {"-", "."}
    /\ s[8] \in {"-", "."}

\* what handle_missing_date did: the date it returned, the cache it left and
\* whether it asked
DateResult(date, cache, was_asked) ==
    [date |-> date, cache |-> cache, asked |-> was_asked]

\* a resolver that asks every time
handle_missing_date_uncached(cache, season, episode, answer) ==
    DateResult(dotted(answer),
               [k \in DOMAIN cache \cup {cache_key(season, episode)} |->
                    IF k = cache_key(season, episode) THEN dotted(answer)
                    ELSE cache[k]],
               TRUE)

\* DataSourceManager.handle_missing_date; answer is the first input the
\* loop accepts
handle_missing_date(cache, season, episode, answer) ==
    IF cache_key(season, episode) \in DOMAIN cache
    THEN DateResult(cache[cache_key(season, episode)], cache, FALSE)
    ELSE DateResult(dotted(answer),
                    [k \in DOMAIN cache \cup {cache_key(season, episode)} |->
                         IF k = cache_key(season, episode) THEN dotted(answer)
                         ELSE cache[k]],
                    TRUE)

\* Config.load: the features are all enabled, the command line sets
\* dry_run and force_overwrite
Configs ==
    [dry_run : BOOLEAN, force_overwrite : BOOLEAN]

\* main before "Loading Data": DataSourceManager.__init__
ImportInit ==
    /\ config \in Configs
    /\ video_queue \in VideoLists(MaxVideos, 1)
    /\ disk \in {fresh_disk(video_queue), used_disk(video_queue)}
    /\ attempts = 0
    /\ fetched = [title_plot |-> NoCsv, ep_guide |-> NoGuide]
    /\ continue_answer = "None"
    /\ title_source_preference = "None"
    /\ date_cache = <<>>
    /\ date_inputs = <<>>
    /\ last = NoLast
    /\ ipc = "title_plot"

\* what the operator types during one process_episode: at the title prompt,
\* at the date prompt, at "Overwrite existing NFO?", at "Delete these
\* files?" for the repository and for the library, at "Delete processed
\* video file?"; and the way the copy fails
Answers(choice, date, overwrite, failure, cleanup, delete) ==
    [choice |-> choice, date |-> date, overwrite |-> overwrite,
     failure |-> failure, cleanup |-> cleanup, delete |-> delete]

\* no file is offered for deletion
NoCleanup ==
    <<FALSE, FALSE>>

\* process_episode l.1597: the metadata of the file
metadata_of(vf, choice) ==
    get_episode_metadata(vf.parsed_info, vf.filename, fetched.title_plot,
                         fetched.ep_guide, title_source_preference, choice)

\* not metadata.get('season') or not metadata.get('episode')
unresolved(m) ==
    Falsy(m.season) \/ Falsy(m.episode)

\* process_episode l.1643-1653: the date of the guide, or else the date
\* handle_missing_date returns
premiered_of(m, answer) ==
    IF m.premiered # <<>> THEN DateResult(m.premiered, date_cache, FALSE)
    ELSE handle_missing_date(date_cache, m.season, m.episode, answer)

\* process_episode l.1677-1685: nfo_content
nfo_content_of(m, premiered, overwrite) ==
    IF ~check_existing_nfo(disk, m.season, m.episode) \/ overwrite = "y"
    THEN generate_nfo_content(m.title, m.season, m.episode, premiered)
    ELSE NoNfo

\* process_episode l.1688-1705: the steps of the copy_files call
steps_of(vf, m, nfo) ==
    batch_steps(disk, vf.filepath, target_dirs(m.season),
                generate_plex_filename(m.season, m.episode, m.title)
                    \o vf.extension,
                nfo, config.dry_run)

\* the answers "Delete these files?" may get after the copy left disk d:
\* the question is put for a path when files were found under it
cleanup_answers(d, m) ==
    {<<r, l>> : r \in {FALSE} \cup
                    {find_original_episodes(d, m.anime_episodes,
                                            RepositoryRoot) # {}},
                l \in {FALSE} \cup
                    {find_original_episodes(d, m.anime_episodes,
                                            LibraryRoot) # {}}}

\* the answers "Delete processed video file?" may get: the question is put
\* outside a dry run when force is not set
delete_answers ==
    IF ~config.dry_run /\ ~config.force_overwrite
    THEN {"y", "n", "a"} ELSE {"None"}

\* the inputs of process_episode once the copy has been made or has failed
inputs_at_copy(vf, m, choice, date, overwrite, steps) ==
    UNION {IF failure.at # 0
           THEN {Answers(choice, date, overwrite, failure, NoCleanup, "None")}
           ELSE {Answers(choice, date, overwrite, failure, cleanup, delete) :
                     cleanup \in cleanup_answers(
                         batch_operation(disk, steps, 1, failure, {}).disk, m),
                     delete \in delete_answers} :
           failure \in Failures(steps)}

\* the inputs of process_episode once the date is known
inputs_at_nfo(vf, m, choice, date) ==
    IF m.title = <<>>
    THEN {Answers(choice, date, "None", NoFailure, NoCleanup, "None")}
    ELSE UNION {inputs_at_copy(vf, m, choice, date, overwrite,
                    steps_of(vf, m, nfo_content_of(m,
                                 premiered_of(m, date).date, overwrite))) :
                overwrite \in IF check_existing_nfo(disk, m.season, m.episode)
                              THEN {"y", "n"} ELSE {"None"}}

\* the inputs of process_episode once the title is known
inputs_at_date(vf, m, choice) ==
    IF m.quit \/ unresolved(m)
    THEN {Answers(choice, <<>>, "None", NoFailure, NoCleanup, "None")}
    ELSE UNION {inputs_at_nfo(vf, m, choice, date) :
                date \in IF premiered_of(m, I_Date1).asked
                         THEN {a \in DateAnswers : valid_date(a)}
                         ELSE {<<>>}}

\* the inputs process_episode may read for a file: an answer for each
\* prompt it issues
process_inputs(vf) ==
    UNION {inputs_at_date(vf, metadata_of(vf, choice), choice) :
           choice \in IF metadata_of(vf, "1").prompted THEN TitleChoices
                      ELSE {"None"}}

\* what process_episode did for a file: how it ended ("quit": sys.exit in
\* the title prompt; "unresolved", "invalid", "raised": return False;
\* "processed": return True), the metadata, what the title resolver was
\* given and did, and the date and the sidecar it made
Log(vf, m, in, dr, nfo, outcome) ==
    [called |-> TRUE, filename |-> vf.filename, outcome |-> outcome,
     season |-> m.season, episode |-> m.episode, title |-> m.title,
     conflict |-> m.conflict, csv_option |-> m.csv_option,
     media_option |-> m.media_option,
     pref_before |-> title_source_preference, prompted |-> m.prompted,
     choice |-> in.choice,
     date_missing |-> outcome \notin {"quit", "unresolved"}
                         /\ m.premiered = <<>>,
     date_asked |-> dr.asked, date_answer |-> in.date,
     premiered |-> dr.date, nfo |-> nfo]

\* the state process_episode leaves: the disk, the title preference, the
\* date cache, config.force_overwrite, and the log of what it did
Processed(d, preference, cache, force, log) ==
    [disk |-> d, preference |-> preference, cache |-> cache,
     force |-> force, log |-> log]

\* no date was looked for
NoDate ==
    DateResult(<<>>, <<>>, FALSE)

\* process_episode l.1714-1723: the cleanup and the deletion of the source
after_copy(vf, m, in, dr, nfo, d) ==
    Bind(delete_processed_video(
             perform_cleanup(d, m.anime_episodes, in.cleanup), vf.filepath,
             config.dry_run, config.force_overwrite, in.delete),
         LAMBDA x : Processed(x.disk, m.preference, dr.cache, x.force,
                              Log(vf, m, in, dr, nfo, "processed")))

\* process_episode l.1676-1705: the sidecar, the new name and the copy; an
\* exception of copy_files ends the function in its except clause
after_date(vf, m, in, dr, nfo) ==
    Bind(copy_files(disk, vf.filepath, target_dirs(m.season),
                    generate_plex_filename(m.season, m.episode, m.title)
                        \o vf.extension,
                    nfo, config.dry_run, in.failure),
         LAMBDA b :
             IF b.raised
             THEN Processed(b.disk, m.preference, dr.cache,
                            config.force_overwrite,
                            Log(vf, m, in, dr, nfo, "raised"))
             ELSE after_copy(vf, m, in, dr, nfo, b.disk))

\* process_episode l.1641-1674: the date, and EpisodeData, which refuses an
\* empty title
after_metadata(vf, m, in, dr) ==
    IF m.title = <<>>
    THEN Processed(disk, m.preference, dr.cache, config.force_overwrite,
                   Log(vf, m, in, dr, NoNfo, "invalid"))
    ELSE after_date(vf, m, in, dr, nfo_content_of(m, dr.date, in.overwrite))

\* process_episode
process_episode(vf, in) ==
    Bind(metadata_of(vf, in.choice), LAMBDA m :
        IF m.quit \/ unresolved(m)
        THEN Processed(disk, m.preference, date_cache,
                       config.force_overwrite,
                       Log(vf, m, in, NoDate, NoNfo,
                           IF m.quit THEN "quit" ELSE "unresolved"))
        ELSE after_metadata(vf, m, in, premiered_of(m, in.date)))

\* fetch_data under @retry: one attempt of the call under way; the data is
\* stored when the request succeeds, the call is made again when it fails,
\* and the exception reaches main after the last attempt
fetch_data_attempt ==
    /\ ipc \in {"title_plot", "ep_guide"}
    /\ attempts < RetryAttempts
    /\ \E ok \in BOOLEAN :
           IF ok
           THEN /\ fetched' = IF ipc = "title_plot"
                              THEN [fetched EXCEPT !.title_plot = CsvTable]
                              ELSE [fetched EXCEPT !.ep_guide = Guide]
                /\ attempts' = 0
                /\ ipc' = IF ipc = "title_plot" THEN "ep_guide"
                          ELSE "process"
           ELSE /\ fetched' = fetched
                /\ attempts' = attempts + 1
                /\ ipc' = IF attempts + 1 = RetryAttempts THEN "continue"
                          ELSE ipc
    /\ UNCHANGED <<config, disk, continue_answer, title_source_preference,
                   date_cache, date_inputs, video_queue, last,
                   otherThanImport>>

\* a main that goes on whatever the answer
continue_whatever(answer) ==
    "process"

\* main l.1818-1819: if input("Continue anyway? (y/n): ").lower() != 'y':
\* return 1
continue_anyway(answer) ==
    IF answer = "y" THEN "process" ELSE "failed"

\* main l.1816-1819: the exception of fetch_data is caught and the operator
\* is asked
main_continue_anyway ==
    /\ ipc = "continue"
    /\ \E answer \in {"y", "n"} :
           /\ continue_answer' = answer
           /\ ipc' = continue_anyway(answer)
    /\ UNCHANGED <<config, disk, attempts, fetched, title_source_preference,
                   date_cache, date_inputs, video_queue, last,
                   otherThanImport>>

\* main l.1841-1842: process_episode(vf, managers) for the next video file
process_episode_call ==
    /\ ipc = "process"
    /\ Len(video_queue) > 0
    /\ \E o \in {process_episode(Head(video_queue), in) :
                     in \in process_inputs(Head(video_queue))} :
           /\ disk' = o.disk
           /\ title_source_preference' = o.preference
           /\ date_cache' = o.cache
           /\ date_inputs' = IF o.log.date_asked
                             THEN Append(date_inputs,
                                         [season |-> o.log.season,
                                          episode |-> o.log.episode,
                                          answer |-> o.log.date_answer])
                             ELSE date_inputs
           /\ config' = [config EXCEPT !.force_overwrite = o.force]
           /\ last' = o.log
           /\ ipc' = IF o.log.outcome = "quit" THEN "quit" ELSE "process"
    /\ video_queue' = Tail(video_queue)
    /\ UNCHANGED <<attempts, fetched, continue_answer, otherThanImport>>

\* main l.1844-1845: return 0
import_return ==
    /\ ipc = "process"
    /\ Len(video_queue) = 0
    /\ ipc' = "done"
    /\ UNCHANGED <<config, disk, attempts, fetched, continue_answer,
                   title_source_preference, date_cache, date_inputs,
                   video_queue, last, otherThanImport>>

ImportNext ==
    \/ fetch_data_attempt
    \/ main_continue_anyway
    \/ process_episode_call
    \/ import_return

ImportStart ==
    ImportInit /\ ScanIdle /\ RangesIdle /\ ParseIdle /\ RenameIdle
    /\ TitleIdle /\ CallIdle

SpecImport ==
    ImportStart /\ [][ImportNext]_vars
(***************************************************************************)
(* The import run: dry run, batches, titles, dates, fetches                *)
(***************************************************************************)
\* C11: with dry-run set no step of a run creates, changes, renames or
\* deletes a file or a folder: the disk after the step is the disk before it
C11_DryRunWritesNothing ==
    [][config.dry_run => disk' = disk]_vars

\* the step is a process_episode whose copy_files raised
BatchRaised ==
    /\ ipc = "process"
    /\ video_queue' # video_queue
    /\ last'.called
    /\ last'.outcome = "raised"

\* C12: when a write of the batch of an episode fails, no file the batch
\* wrote remains, the file whose write failed included, and the files that
\* were there before the batch are as they were
C12_BatchAllOrNothing ==
    [][BatchRaised => disk'.files = disk.files]_vars

\* the title the policy gives for the conflict of the latest episode: the
\* title of the preference that was set, or else the one the operator chose
PolicyTitle ==
    IF last.pref_before = "csv" THEN last.csv_option
    ELSE IF last.pref_before = "media" THEN last.media_option
    ELSE IF last.choice \in {"1", "3"} THEN last.csv_option
    ELSE last.media_option

\* C13: when the title of the table and the title of the file both exist
\* and their normalized bases differ, the resolved title is the one the
\* sticky preference names, without a prompt, or, when no preference is
\* set, the one the operator chose at the prompt (or the run ended at the
\* prompt): no title is picked without one of the two
C13_TitleByPolicyOnly ==
    (last.called /\ last.conflict) =>
        /\ last.prompted <=> last.pref_before = "None"
        /\ last.prompted => last.choice \in TitleChoices
        /\ IF last.outcome = "quit"
           THEN last.prompted /\ last.choice = "q"
           ELSE last.title = PolicyTitle

\* a second episode in conflict gets the title of the file without a prompt
\* because the operator chose "always media" at the first
C13_Witness ==
    /\ last.called
    /\ last.conflict
    /\ last.pref_before = "media"
    /\ ~last.prompted
    /\ last.title = last.media_option
    /\ last.title # last.csv_option

\* the date prompts of the run that were about the latest episode
AskedForLast ==
    {i \in 1..Len(date_inputs) :
         /\ date_inputs[i].season = last.season
         /\ date_inputs[i].episode = last.episode}

\* C14: an episode whose date no source holds gets the date the operator
\* typed when asked; the operator is asked once per (season, episode) in a
\* run and later requests get the first accepted answer without a prompt;
\* two different (season, episode) pairs have different cache entries
C14_DateFromCallerOncePerEpisode ==
    /\ \A i, j \in 1..Len(date_inputs) :
           i # j =>
               /\ <<date_inputs[i].season, date_inputs[i].episode>>
                      # <<date_inputs[j].season, date_inputs[j].episode>>
               /\ cache_key(date_inputs[i].season, date_inputs[i].episode)
                      # cache_key(date_inputs[j].season, date_inputs[j].episode)
    /\ DOMAIN date_cache =
           {cache_key(date_inputs[i].season, date_inputs[i].episode) :
                i \in 1..Len(date_inputs)}
    /\ \A i \in 1..Len(date_inputs) :
           /\ valid_date(date_inputs[i].answer)
           /\ date_cache[cache_key(date_inputs[i].season,
                                   date_inputs[i].episode)]
                  = dotted(date_inputs[i].answer)
    /\ (last.called /\ last.date_missing) =>
           /\ Cardinality(AskedForLast) = 1
           /\ \A i \in AskedForLast :
                  /\ last.premiered = dotted(date_inputs[i].answer)
                  /\ last.date_asked =>
                         /\ i = Len(date_inputs)
                         /\ date_inputs[i].answer = last.date_answer
                  /\ last.nfo # NoNfo =>
                         last.nfo.premiered = dashed(date_inputs[i].answer)

\* the second file of an episode without a date gets, without a prompt, the
\* date typed for the first, and its sidecar is made with it; the run has
\* asked for the date of another episode as well
C14_Witness ==
    /\ last.called
    /\ last.date_missing
    /\ ~last.date_asked
    /\ last.nfo # NoNfo
    /\ last.outcome = "processed"
    /\ \E i \in 1..Len(date_inputs) :
           last.nfo.premiered = dashed(date_inputs[i].answer)

\* a fetch has used up its attempts: main has put "Continue anyway?", or is
\* about to
RetriesExhausted ==
    ipc = "continue" \/ continue_answer # "None"

AlabastaProcessed ==
    last.called /\ last.filename = I_AlabastaLegacy

\* C21: with Alabasta -> 12 in the taxonomy, the library file
\* "[One Pace][1-10] Alabasta 05 [1080p][ABCD1234].mkv", no sidecar and no
\* row of the sources for S12E05: the name is parsed (arc "Alabasta",
\* episode 5), the season resolves to 12, the date is asked of the
\* operator, and with the date the builder makes a sidecar of season 12 and
\* episode 5; the file is neither left unparsed nor left unresolved
C21_LegacyAlabastaEndToEnd ==
    /\ \A k \in 1..Len(video_queue) :
           video_queue[k].filename = I_AlabastaLegacy =>
               /\ video_queue[k].parsed_info.arc_name = T_Alabasta
               /\ video_queue[k].parsed_info.episode = 5
    /\ AlabastaProcessed =>
           /\ last.outcome \in {"processed", "raised"}
           /\ last.season = 12
           /\ last.episode = 5
           /\ last.date_missing
           /\ last.date_asked
           /\ date_inputs[Len(date_inputs)]
                  = [season |-> 12, episode |-> 5, answer |-> last.date_answer]
           /\ last.nfo = FileBody("nfo", T_Alabasta, 12, 5,
                                  dashed(last.date_answer))

\* the file was processed outside a dry run and its sidecar lies in the
\* folder of season 12 of the library
C21_Witness ==
    /\ AlabastaProcessed
    /\ last.outcome = "processed"
    /\ \E p \in DOMAIN disk.files :
           /\ p.dir = target_dirs(12)[1]
           /\ disk.files[p] = FileBody("nfo", T_Alabasta, 12, 5, I_Date1)

(***************************************************************************)
(* The three parsers of a file name, called side by side on one name       *)
(***************************************************************************)

L_DawnRange ==
    <<"[", "O", "n", "e", " ", "P", "a", "c", "e", "]", "[", "1", "-", "7", "]", " ", "D", "a", "w", "n", " ", "0", "1", "-", "0", "2", " ", "[", "7", "2", "0", "p", "]", "[", "A", "B", "C", "D", "1", "2", "3", "4", "]", ".", "m", "k", "v">>

L_Baratie ==
    <<"[", "O", "n", "e", " ", "P", "a", "c", "e", "]", "[", "4", "2", "-", "4", "4", "]", " ", "B", "a", "r", "a", "t", "i", "e", " ", "0", "3", " ", "[", "7", "2", "0", "p", "]", "[", "A", "B", "C", "D", "1", "2", "3", "4", "]", ".", "m", "k", "v">>

L_BaratieExtended ==
    <<"[", "O", "n", "e", " ", "P", "a", "c", "e", "]", "[", "4", "2", "-", "4", "4", "]", " ", "B", "a", "r", "a", "t", "i", "e", " ", "0", "3", " ", "E", "x", "t", "e", "n", "d", "e", "d", " ", "[", "7", "2", "0", "p", "]", "[", "A", "B", "C", "D", "1", "2", "3", "4", "]", ".", "m", "k", "v">>

L_Paced ==
    <<"[", "O", "n", "e", " ", "P", "a", "c", "e", "]", " ", "P", "a", "c", "e", "d", " ", "O", "n", "e", " ", "P", "i", "e", "c", "e", " ", "-", " ", "B", "a", "r", "a", "t", "i", "e", " ", "E", "p", "i", "s", "o", "d", "e", " ", "0", "2", " ", "[", "7", "2", "0", "p", "]", "[", "A", "B", "C", "D", "1", "2", "3", "4", "]", ".", "m", "k", "v">>

L_Arabasta ==
    <<"[", "O", "n", "e", " ", "P", "a", "c", "e", "]", "[", "1", "5", "5", "-", "1", "5", "7", "]", " ", "A", "r", "a", "b", "a", "s", "t", "a", " ", "0", "5", " ", "[", "7", "2", "0", "p", "]", "[", "A", "B", "C", "D", "1", "2", "3", "4", "]", ".", "m", "k", "v">>

L_Plex ==
    <<"O", "n", "e", " ", "P", "a", "c", "e", " ", "-", " ", "S", "0", "5", "E", "0", "3", " ", "-", " ", "T", "h", "e", " ", "C", "o", "o", "k", ".", "m", "k", "v">>

L_Notes ==
    <<"n", "o", "t", "e", "s", ".", "m", "k", "v">>

L_MovieName ==
    <<"O", "n", "e", " ", "P", "a", "c", "e", " ", "-", " ", "T", "h", "e", " ", "C", "o", "o", "k">>

\* the file names the parsers are given: names in brackets with a range of
\* chapters, one of them with a range of episode numbers, a "Paced One
\* Piece" name, a Plex name and a name no pattern matches
FileNamePool ==
    {I_AlabastaLegacy, M_LegacyDawn, L_DawnRange, L_Baratie,
     L_BaratieExtended, L_Paced, L_Arabasta, L_Plex, L_Notes}

\* the movie names of the general track: none, or a title after a dash
MovieNamePool ==
    {NoneStr, L_MovieName}

\* returned with the value of one more function
Returning(name, value) ==
    [n \in DOMAIN returned \cup {name} |->
        IF n = name THEN value ELSE returned[n]]

ParsersInit ==
    /\ subject \in [filename : FileNamePool, movie_name : MovieNamePool]
    /\ returned = <<>>
    /\ cpc = "parsers"

ParsersStart ==
    /\ ParsersInit
    /\ ScanIdle
    /\ RangesIdle
    /\ ParseIdle
    /\ RenameIdle
    /\ TitleIdle
    /\ ImportIdle

\* ObsoleteEpisodeDetector.parse_episode_from_filename(filepath)
detector_parse_call ==
    /\ cpc = "parsers"
    /\ "parse_episode_from_filename" \notin DOMAIN returned
    /\ returned' = Returning("parse_episode_from_filename",
                             parse_episode_from_filename(subject.filename))
    /\ UNCHANGED <<subject, cpc, otherThanCall>>

\* rename.get_episode_from_media(filepath, seasons)
rename_parse_call ==
    /\ cpc = "parsers"
    /\ "get_episode_from_media" \notin DOMAIN returned
    /\ returned' = Returning("get_episode_from_media",
                             get_episode_from_media(subject.filename))
    /\ UNCHANGED <<subject, cpc, otherThanCall>>

\* FilenameParser.parse(filename, filepath)
import_parse_call ==
    /\ cpc = "parsers"
    /\ "parse" \notin DOMAIN returned
    /\ returned' = Returning("parse",
                             parse(subject.filename, subject.movie_name))
    /\ UNCHANGED <<subject, cpc, otherThanCall>>

ParsersNext ==
    \/ detector_parse_call
    \/ rename_parse_call
    \/ import_parse_call

SpecParsers ==
    ParsersStart /\ [][ParsersNext]_vars

\* C22: parse is total and no parser raises: whatever the file name, each
\* of the calls returns an identity or a no-match result, never an exception
C22_ParsersNeverRaise ==
    \A n \in DOMAIN returned : "raised" \notin DOMAIN returned[n]

\* FilenameParser.parse alone is total: it returns an EpisodeInfo for every
\* name
ImportParseTotal ==
    "parse" \in DOMAIN returned =>
        DOMAIN returned["parse"] = {"season", "episode", "title", "arc_name"}

\* the names in brackets of the pool, "[One Pace][<chapters>] <arc> <episode>"
LegacyNames ==
    {fn \in FileNamePool :
         chapters_bracket_at(fn, Lit(fn, 1, S_BrOnePace)) # 0}

\* the numeric token that follows the arc name of a name in brackets: the
\* first number after a space behind the bracket of the chapters
episode_token(fn) ==
    Bind(chapters_bracket_at(fn, Lit(fn, 1, S_BrOnePace)), LAMBDA b :
    Bind(FirstPos(fn, b, LAMBDA e : number_after(fn, e) # 0), LAMBDA e :
        DigitsToInt(Slice(fn, number_after(fn, e),
                          DigitsEnd(fn, number_after(fn, e)) - 1))))

\* the season and the episode a parser derived, from what it returned: the
\* import tool resolves the season of the parsed arc name afterwards
derived(name) ==
    IF ~("ok" \in DOMAIN returned[name] => returned[name].ok)
    THEN <<NoneInt, NoneInt>>
    ELSE IF name = "parse_episode_from_filename"
    THEN <<returned[name].season, returned[name].episode>>
    ELSE IF name = "get_episode_from_media"
    THEN <<returned[name].season, returned[name].number>>
    ELSE <<detect_season(returned[name]).season, returned[name].episode>>

\* C23: for a name in brackets every parser that returns an episode takes
\* the numeric token after the arc name as the episode number, never a
\* number of the chapters, and the parsers that resolved a season agree on it
C23_LegacyParsersAgree ==
    (cpc = "parsers" /\ subject.filename \in LegacyNames) =>
        /\ \A n \in DOMAIN returned :
               derived(n)[2] # NoneInt
                   => derived(n)[2] = episode_token(subject.filename)
        /\ \A n, m \in DOMAIN returned :
               (derived(n)[1] # NoneInt /\ derived(m)[1] # NoneInt)
                   => derived(n)[1] = derived(m)[1]

\* the import tool and the rename script do take the token after the arc
\* name, for every name in brackets with a single episode number
RenameAndImportTakeToken ==
    (cpc = "parsers" /\ subject.filename \in LegacyNames \ {L_DawnRange}) =>
        \A n \in DOMAIN returned \ {"parse_episode_from_filename"} :
            /\ derived(n)[2] = episode_token(subject.filename)
            /\ \A m \in DOMAIN returned :
                   (derived(n)[1] # NoneInt /\ derived(m)[1] # NoneInt)
                       => derived(n)[1] = derived(m)[1]

(***************************************************************************)
(* The coverage marker: the sidecar the import tool builds, and the test   *)
(* of the detector and of the import tool on it                            *)
(***************************************************************************)

S_Manga ==
    <<"M", "a", "n", "g", "a">>

S_Chapter ==
    <<"C", "h", "a", "p", "t", "e", "r">>

S_MangaChaptersPrefix ==
    <<"M", "a", "n", "g", "a", " ", "C", "h", "a", "p", "t", "e", "r", "(", "s", ")", ":", " ">>

K_LuffySails ==
    <<"L", "u", "f", "f", "y", " ", "s", "e", "t", "s", " ", "s", "a", "i", "l", ".">>

K_EpisodesBare ==
    <<"E", "p", "i", "s", "o", "d", "e", "s", ":">>




K_TitleOpen ==
    <<"<", "t", "i", "t", "l", "e", ">">>

K_TitleClose ==
    <<"<", "/", "t", "i", "t", "l", "e", ">">>

K_PlotOpen ==
    <<"<", "p", "l", "o", "t", ">">>

K_PlotClose ==
    <<"<", "/", "p", "l", "o", "t", ">">>

K_RomanceDawn ==
    <<"R", "o", "m", "a", "n", "c", "e", " ", "D", "a", "w", "n">>

\* generate_nfo_content, "build plot with manga/anime info"
build_plot(plot, manga_range, anime_range) ==
    Strip(plot)
        \o (IF Len(manga_range) > 0 \/ Len(anime_range) > 0
            THEN <<"\n", "\n">>
                     \o (IF Len(manga_range) > 0
                         THEN S_MangaChaptersPrefix \o manga_range
                                  \o <<"\n", "\n">>
                         ELSE <<>>)
                     \o (IF Len(anime_range) > 0
                         THEN anime_episodes_line(anime_range) ELSE <<>>)
            ELSE <<>>)

\* the sidecar generate_nfo_content returns, as the detector parses it: a
\* well-formed document with a title and a plot
built_nfo(title, plot, manga_chapters, anime_episodes) ==
    [xml |-> "ok", title |-> title,
     plot |-> build_plot(plot, format_ranges(manga_chapters),
                         format_ranges(anime_episodes))]

\* nfo_path.read_text(): the title and the plot between their tags (the
\* other elements hold the show title, numbers and dates)
read_text(nfo) ==
    K_TitleOpen \o nfo.title \o K_TitleClose \o <<"\n">>
        \o K_PlotOpen \o nfo.plot \o K_PlotClose

\* r'<word>\s*\(?s?\)?:\s*(?:\d+|\w+)' under re.IGNORECASE at position e0:
\* the position after the first character of the last group, 0 when there
\* is no match
coverage_tail_at(s, e0, word) ==
    Bind(LitCI(s, e0, word), LAMBDA w :
    Bind(OptCI(s, OptCI(s, OptCI(s, IF w = 0 THEN 0 ELSE SkipSpaces(s, w),
                                 "("), "s"), ")"), LAMBDA c :
        IF c # 0 /\ At(s, c) = ":" /\ IsWord(At(s, SkipSpaces(s, c + 1)))
        THEN SkipSpaces(s, c + 1) + 1 ELSE 0))

\* chapter_pattern (prefix Manga, word Chapter) or episode_pattern (prefix
\* Anime, word Episode) matched at position i
coverage_at(s, i, prefix, word) ==
    Bind(LitCI(s, i, prefix), LAMBDA a :
        IF a # 0 /\ IsSpace(At(s, a))
           /\ coverage_tail_at(s, SkipSpaces(s, a), word) # 0
        THEN coverage_tail_at(s, SkipSpaces(s, a), word)
        ELSE coverage_tail_at(s, i, word))

\* re.search(chapter_pattern, content, re.IGNORECASE)
has_chapters(content) ==
    \E i \in 1..Len(content) : coverage_at(content, i, S_Manga, S_Chapter) # 0

\* re.search(episode_pattern, content, re.IGNORECASE)
has_episodes(content) ==
    \E i \in 1..Len(content) : coverage_at(content, i, S_Anime, S_Episode) # 0

\* is_one_pace_episode of tools/import_episode.py, on the text of a sidecar
\* that can be read
import_is_one_pace_episode(content) ==
    has_chapters(content) \/ has_episodes(content)

\* the plots, the chapters and the episodes of the records the builder is
\* given: a plot can be empty and can hold a word of the marker itself, a
\* coverage can be empty, one number or several
PlotPool ==
    {<<>>, K_LuffySails, K_EpisodesBare}

MangaChaptersPool ==
    {<<>>, <<1>>, <<1, 2, 3>>}

AnimeEpisodesPool ==
    {<<>>, <<4>>, <<1, 2, 4>>}

MarkersInit ==
    /\ subject \in [title : {K_RomanceDawn}, plot : PlotPool,
                    manga_chapters : MangaChaptersPool,
                    anime_episodes : AnimeEpisodesPool]
    /\ returned = <<>>
    /\ cpc = "markers"

MarkersStart ==
    /\ MarkersInit
    /\ ScanIdle
    /\ RangesIdle
    /\ ParseIdle
    /\ RenameIdle
    /\ TitleIdle
    /\ ImportIdle

\* MetadataProcessor.generate_nfo_content(episode_data)
generate_nfo_content_call ==
    /\ cpc = "markers"
    /\ "generate_nfo_content" \notin DOMAIN returned
    /\ returned' = Returning("generate_nfo_content",
                             built_nfo(subject.title, subject.plot,
                                       subject.manga_chapters,
                                       subject.anime_episodes))
    /\ UNCHANGED <<subject, cpc, otherThanCall>>

\* ObsoleteEpisodeDetector.is_one_pace_episode(nfo_path) on the sidecar
detector_marker_call ==
    /\ cpc = "markers"
    /\ "generate_nfo_content" \in DOMAIN returned
    /\ "detector" \notin DOMAIN returned
    /\ returned' = Returning("detector",
                             is_one_pace_episode(
                                 returned["generate_nfo_content"]))
    /\ UNCHANGED <<subject, cpc, otherThanCall>>

\* is_one_pace_episode(nfo_path) of the import tool on the same sidecar
import_marker_call ==
    /\ cpc = "markers"
    /\ "generate_nfo_content" \in DOMAIN returned
    /\ "import" \notin DOMAIN returned
    /\ returned' = Returning("import",
                             import_is_one_pace_episode(
                                 read_text(returned["generate_nfo_content"])))
    /\ UNCHANGED <<subject, cpc, otherThanCall>>

MarkersNext ==
    \/ generate_nfo_content_call
    \/ detector_marker_call
    \/ import_marker_call

SpecMarkers ==
    MarkersStart /\ [][MarkersNext]_vars

\* C24: the two tests of the coverage marker agree on every sidecar, and a
\* sidecar built for a record with chapters or episodes is canonical for both
C24_MarkerTestsAgree ==
    cpc = "markers" =>
        /\ {"detector", "import"} \subseteq DOMAIN returned
               => returned["detector"] = returned["import"]
        /\ Len(subject.manga_chapters) > 0 \/ Len(subject.anime_episodes) > 0
               => \A n \in DOMAIN returned \cap {"detector", "import"} :
                      returned[n]

\* the test of the import tool does hold for every sidecar built for a
\* record with chapters or episodes, and the test of the detector for every
\* one built for a record with episodes
BuiltSidecarsCanonical ==
    cpc = "markers" =>
        /\ ("import" \in DOMAIN returned
            /\ (Len(subject.manga_chapters) > 0 \/ Len(subject.anime_episodes) > 0))
               => returned["import"]
        /\ ("detector" \in DOMAIN returned /\ Len(subject.anime_episodes) > 0)
               => returned["detector"]

(***************************************************************************)
(* dist/rename.py: clean_tree                                              *)
(***************************************************************************)
\* the children of the root a sidecar may hold
MaxChildren == 3

\* the tags clean_tree keeps
allowed_tags ==
    {"title", "originaltitle", "sorttitle", "showtitle", "season", "episode",
     "plot", "premiered", "aired", "seasonnumber", "namedseason"}

\* a child of the root: its tag and its text, None for an element that
\* holds no text
Child(tag, text) ==
    [tag |-> tag, text |-> text]

\* a sidecar: whether ET.parse can read it, and the children of its root
Document(xml, children) ==
    [xml |-> xml, children |-> children]

\* clean_tree returns None (after it printed the error of ET.parse)
NoTree ==
    [ok |-> FALSE]

\* the loop "for child in root" from child i on: the positions of the
\* children of to_remove
RECURSIVE clean_loop(_, _, _, _)
clean_loop(children, i, found, to_remove) ==
    IF i > Len(children) THEN to_remove
    ELSE IF children[i].tag \notin allowed_tags
    THEN clean_loop(children, i + 1, found, Append(to_remove, i))
    ELSE IF children[i].text = NoneStr
    THEN clean_loop(children, i + 1, found, Append(to_remove, i))
    ELSE IF children[i].tag \notin found
    THEN clean_loop(children, i + 1, found \cup {children[i].tag}, to_remove)
    ELSE clean_loop(children, i + 1, found, Append(to_remove, i))

\* "for child in to_remove: root.remove(child)": the children from i on that
\* are left
RECURSIVE remove_children(_, _, _)
remove_children(children, to_remove, i) ==
    IF i > Len(children) THEN <<>>
    ELSE (IF \E k \in 1..Len(to_remove) : to_remove[k] = i
          THEN <<>> ELSE <<children[i]>>)
             \o remove_children(children, to_remove, i + 1)

\* a cleanup that keeps the last occurrence of a field instead of the first
clean_tree_keep_last(doc) ==
    IF doc.xml # "ok" THEN NoTree
    ELSE Bind({i \in 1..Len(doc.children) :
                   \/ doc.children[i].tag \notin allowed_tags
                   \/ doc.children[i].text = NoneStr
                   \/ \E j \in (i + 1)..Len(doc.children) :
                          /\ doc.children[j].tag = doc.children[i].tag
                          /\ doc.children[j].text # NoneStr},
              LAMBDA gone :
                  [ok |-> TRUE,
                   root |-> remove_children(doc.children, SortedSeq(gone), 1),
                   edited |-> gone # {}])

\* clean_tree(fpath): the root that is left and the flag edited
clean_tree(doc) ==
    IF doc.xml # "ok" THEN NoTree
    ELSE Bind(clean_loop(doc.children, 1, {}, <<>>), LAMBDA to_remove :
             [ok |-> TRUE,
              root |-> remove_children(doc.children, to_remove, 1),
              edited |-> Len(to_remove) > 0])

\* the children a sidecar of the model holds: a field that is allowed, with
\* one text, another or none, and a field that is not
ChildPool ==
    {Child(t, x) : t \in {"title", "plot", "rating"},
                   x \in {NoneStr, <<"a">>, <<"b">>}}

RECURSIVE ChildLists(_)
ChildLists(n) ==
    IF n = 0 THEN {<<>>}
    ELSE ChildLists(n - 1)
             \cup {Append(l, c) : l \in {l \in ChildLists(n - 1) :
                                             Len(l) = n - 1},
                                  c \in ChildPool}

CleanInit ==
    /\ subject \in {Document("ok", l) : l \in ChildLists(MaxChildren)}
                       \cup {Document("not well-formed", <<>>)}
    /\ returned = <<>>
    /\ cpc = "clean"

CleanStart ==
    /\ CleanInit
    /\ ScanIdle
    /\ RangesIdle
    /\ ParseIdle
    /\ RenameIdle
    /\ TitleIdle
    /\ ImportIdle

\* clean_tree(fpath) on the sidecar
clean_tree_call ==
    /\ cpc = "clean"
    /\ "clean_tree" \notin DOMAIN returned
    /\ returned' = Returning("clean_tree", clean_tree(subject))
    /\ UNCHANGED <<subject, cpc, otherThanCall>>

\* clean_tree(fpath) once more, on the sidecar as the first call left it
clean_tree_again_call ==
    /\ cpc = "clean"
    /\ "clean_tree" \in DOMAIN returned
    /\ returned["clean_tree"].ok
    /\ "again" \notin DOMAIN returned
    /\ returned' = Returning("again",
                             clean_tree(Document("ok",
                                 returned["clean_tree"].root)))
    /\ UNCHANGED <<subject, cpc, otherThanCall>>

CleanNext ==
    \/ clean_tree_call
    \/ clean_tree_again_call

SpecClean ==
    CleanStart /\ [][CleanNext]_vars

\* the first child of the document with the tag
first_occurrence(children, tag) ==
    children[CHOOSE i \in 1..Len(children) :
                 /\ children[i].tag = tag
                 /\ \A j \in 1..(i - 1) : children[j].tag # tag]

\* the first child of the document with the tag that holds a text
first_with_text(children, tag) ==
    children[CHOOSE i \in 1..Len(children) :
                 /\ children[i].tag = tag
                 /\ children[i].text # NoneStr
                 /\ \A j \in 1..(i - 1) :
                        children[j].tag # tag \/ children[j].text = NoneStr]

\* every field that is left is allowed and occurs once, edited tells
\* whether a field was removed, and a second cleanup removes nothing
CleanTreeShape ==
    (cpc = "clean" /\ "clean_tree" \in DOMAIN returned /\ subject.xml = "ok")
        => /\ returned["clean_tree"].ok
           /\ \A i \in 1..Len(returned["clean_tree"].root) :
                  /\ returned["clean_tree"].root[i].tag \in allowed_tags
                  /\ \A j \in 1..Len(returned["clean_tree"].root) :
                         returned["clean_tree"].root[j].tag
                             = returned["clean_tree"].root[i].tag => j = i
           /\ returned["clean_tree"].edited
                  <=> Len(returned["clean_tree"].root) < Len(subject.children)
           /\ "again" \in DOMAIN returned
                  => /\ returned["again"].root = returned["clean_tree"].root
                     /\ ~returned["again"].edited

\* C25 as stated: the shape above, and the occurrence of a field that is
\* kept is its first occurrence in the original document
C25_FirstOccurrenceWins ==
    /\ CleanTreeShape
    /\ (cpc = "clean" /\ "clean_tree" \in DOMAIN returned
        /\ subject.xml = "ok")
           => \A i \in 1..Len(returned["clean_tree"].root) :
                  returned["clean_tree"].root[i]
                      = first_occurrence(subject.children,
                                         returned["clean_tree"].root[i].tag)

\* C25: after clean_tree every field that is left is allowed, holds a text
\* and occurs once; the occurrence kept is the first one of the original
\* document that holds a text, and a field with such an occurrence is kept;
\* edited is true iff a field was removed; a second cleanup removes nothing;
\* of a sidecar that cannot be parsed clean_tree returns nothing
C25_FirstOccurrenceWithTextWins ==
    /\ CleanTreeShape
    /\ (cpc = "clean" /\ "clean_tree" \in DOMAIN returned)
           => IF subject.xml # "ok" THEN returned["clean_tree"] = NoTree
              ELSE /\ \A i \in 1..Len(returned["clean_tree"].root) :
                          /\ returned["clean_tree"].root[i].text # NoneStr
                          /\ returned["clean_tree"].root[i]
                                 = first_with_text(
                                       subject.children,
                                       returned["clean_tree"].root[i].tag)
                   /\ \A k \in 1..Len(subject.children) :
                          (/\ subject.children[k].tag \in allowed_tags
                           /\ subject.children[k].text # NoneStr)
                              => \E i \in 1..Len(returned["clean_tree"].root) :
                                     returned["clean_tree"].root[i].tag
                                         = subject.children[k].tag

\* a field whose first occurrence holds no text and whose second one does
\* was cleaned, twice
C25_Witness ==
    /\ cpc = "clean"
    /\ "again" \in DOMAIN returned
    /\ Len(subject.children) >= 2
    /\ subject.children[1] = Child("title", NoneStr)
    /\ subject.children[2] = Child("title", <<"a">>)
    /\ returned["clean_tree"].edited
    /\ returned["clean_tree"].root[1] = Child("title", <<"a">>)

(***************************************************************************)
(* tools/import_episode.py: the variant suffix of the resolved title       *)
(***************************************************************************)

W_Plain ==
    <<"O", "n", "e", " ", "P", "a", "c", "e", " ", "-", " ", "S", "0", "5", "E", "0", "3", " ", "-", " ", "x", ".", "m", "k", "v">>

W_Extended ==
    <<"O", "n", "e", " ", "P", "a", "c", "e", " ", "-", " ", "S", "0", "5", "E", "0", "3", " ", "-", " ", "x", " ", "(", "E", "x", "t", "e", "n", "d", "e", "d", ")", ".", "m", "k", "v">>

W_AlternateG8 ==
    <<"O", "n", "e", " ", "P", "a", "c", "e", " ", "-", " ", "S", "0", "5", "E", "0", "3", " ", "-", " ", "x", " ", "(", "A", "l", "t", "e", "r", "n", "a", "t", "e", " ", "(", "G", "-", "8", ")", ")", ".", "m", "k", "v">>

W_FooAlt ==
    <<"F", "o", "o", " ", "(", "A", "l", "t", "e", "r", "n", "a", "t", "e", ")">>

W_FooLower ==
    <<"f", "o", "o">>

W_BarAlt ==
    <<"B", "a", "r", " ", "(", "A", "l", "t", "e", "r", "n", "a", "t", "e", ")">>

\* the file names, by the variant they carry: none, Extended, Alternate (G-8)
VariantNames ==
    {W_Plain, W_Extended, W_AlternateG8}

\* the title of the table under the key of the episode: no row, or a title
\* without or with a variant
TableTitles ==
    {NoneStr, U_Foo, U_FooExt, W_FooAlt}

\* episode_info.title: none, the title of the table in another case,
\* another title, each without or with a variant
MediaTitles ==
    {NoneStr, W_FooLower, U_FooExt, U_Bar, W_BarAlt}

\* title_plot_data with the title under the key of S05E03
table_with(csv_title) ==
    IF csv_title = NoneStr THEN NoCsv ELSE cache_key(5, 3) :> csv_title

ResolveInit ==
    /\ subject \in [filename : VariantNames, csv_title : TableTitles,
                    media_title : MediaTitles, choice : {"1", "2"}]
    /\ returned = <<>>
    /\ cpc = "resolve"

ResolveStart ==
    /\ ResolveInit
    /\ ScanIdle
    /\ RangesIdle
    /\ ParseIdle
    /\ RenameIdle
    /\ TitleIdle
    /\ ImportIdle

\* DataSourceManager.get_episode_metadata(episode_info, filename) for
\* episode 3 of season 5, with no preference set and no episode guide
get_episode_metadata_call ==
    /\ cpc = "resolve"
    /\ "get_episode_metadata" \notin DOMAIN returned
    /\ returned' = Returning("get_episode_metadata",
                             get_episode_metadata(
                                 EpisodeInfo(5, 3, subject.media_title,
                                             NoneStr),
                                 subject.filename,
                                 table_with(subject.csv_title), NoGuide,
                                 "none", subject.choice))
    /\ UNCHANGED <<subject, cpc, otherThanCall>>

ResolveNext ==
    get_episode_metadata_call

SpecResolve ==
    ResolveStart /\ [][ResolveNext]_vars

\* the variant the resolved title has to end with: the one of the file
\* name, else the one of the table's title, else the one of the media title
expected_suffix(filename, csv_title, media_title) ==
    IF get_special_episode_suffix(filename) # <<>>
    THEN get_special_episode_suffix(filename)
    ELSE IF ~NoText(csv_title) /\ get_special_episode_suffix(csv_title) # <<>>
    THEN get_special_episode_suffix(csv_title)
    ELSE IF NoText(media_title) THEN <<>>
    ELSE get_special_episode_suffix(media_title)

\* the title ends with the variant, once
ends_with_variant(title, suffix) ==
    /\ EndsWith(title, suffix_text(suffix))
    /\ get_special_episode_suffix(
           Slice(title, 1, Len(title) - Len(suffix_text(suffix)))) = <<>>

\* C26: whatever variants the file name, the title of the table and the
\* media title carry, the resolved title (of an episode that has a title in
\* the table or in the file) ends with one variant suffix, the
\* one of the file name when it has one, else the one of the table's title,
\* else the one of the media title; when the normalized bases are equal the
\* base of the resolved title is the base of the table's title
C26_VariantSuffixResolved ==
    (cpc = "resolve" /\ "get_episode_metadata" \in DOMAIN returned) =>
        /\ (/\ ~NoText(subject.csv_title) \/ ~NoText(subject.media_title)
            /\ expected_suffix(subject.filename, subject.csv_title,
                               subject.media_title) # <<>>)
               => ends_with_variant(
                      returned["get_episode_metadata"].title,
                      expected_suffix(subject.filename, subject.csv_title,
                                      subject.media_title))
        /\ (/\ ~NoText(subject.csv_title)
            /\ ~NoText(subject.media_title)
            /\ normalize_title_for_comparison(title_base(subject.csv_title))
                   = normalize_title_for_comparison(
                         title_base(subject.media_title)))
               => title_base(returned["get_episode_metadata"].title)
                      = title_base(subject.csv_title)

\* the same, for the episodes the table has a title for: there the claim
\* holds
VariantResolvedWithTableTitle ==
    subject # <<>> /\ cpc = "resolve" /\ ~NoText(subject.csv_title)
        => C26_VariantSuffixResolved

(***************************************************************************)
(* tools/import_episode.py: the sticky preference for the source of titles *)
(***************************************************************************)
\* process_episode has just run for the next file of the queue
EpisodeStep ==
    video_queue' # video_queue

\* one step of a run, seen from the preference: a preference that is set
\* stays and settles every later conflict without a prompt; the preference
\* is set by the answers 3 and 4 at the prompt of a conflict, and by nothing
\* else; the answers 1 and 2 leave it unset
PreferenceStep ==
    /\ title_source_preference # "None"
           => /\ title_source_preference' = title_source_preference
              /\ (EpisodeStep /\ last'.conflict)
                     => /\ ~last'.prompted
                        /\ last'.outcome # "quit"
                        /\ last'.title
                               = IF title_source_preference = "csv"
                                 THEN last'.csv_option
                                 ELSE last'.media_option
    /\ (title_source_preference = "None"
        /\ title_source_preference' # "None")
           => EpisodeStep /\ last'.conflict /\ last'.prompted
              /\ last'.choice \in {"3", "4"}
    /\ (EpisodeStep /\ last'.prompted)
           => title_source_preference'
                  = IF last'.choice = "3" THEN "csv"
                    ELSE IF last'.choice = "4" THEN "media"
                    ELSE "None"

\* C27: the sticky preference is unset when a run starts; once the operator
\* answers "always CSV" or "always media" at a conflict, every later
\* conflict of the run is settled with that source without a prompt and the
\* preference never changes again; the answers 1 and 2 leave it unset
C27_StickyPreference ==
    /\ title_source_preference = "None"
    /\ [][PreferenceStep]_vars

\* after "always CSV" at the first conflict, the second file in conflict got
\* the title of the table without a prompt
C27_Witness ==
    /\ last.called
    /\ last.conflict
    /\ last.pref_before = "csv"
    /\ title_source_preference = "csv"
    /\ ~last.prompted
    /\ last.outcome = "processed"
    /\ last.title = last.csv_option
    /\ last.title # last.media_option

(***************************************************************************)
(* dist/rename.py: the exception mapping of a season folder                *)
(***************************************************************************)

X_Cut ==
    <<"C", "u", "t">>

X_Special ==
    <<"S", "p", "e", "c", "i", "a", "l">>

X_Notes ==
    <<"n", "o", "t", "e", "s">>

N_CutNotes ==
    <<"S", "p", "e", "c", "i", "a", "l", " ", "C", "u", "t", " ", "n", "o", "t", "e", "s", ".", "m", "k", "v">>

N_DirectorCut ==
    <<"D", "i", "r", "e", "c", "t", "o", "r", " ", "C", "u", "t", ".", "m", "k", "v">>

N_LowerCut ==
    <<"c", "u", "t", ".", "m", "k", "v">>

\* an entry of exception_mapping
ExceptionEntry(str, ep) ==
    [str |-> str, ep |-> ep]

\* exceptions.get(season_name) for the folder, in the order of the file:
\* no entry, one, and several whose substrings can occur in one name
ExceptionMappings ==
    {<<>>,
     <<ExceptionEntry(X_SpecialCut, 3)>>,
     <<ExceptionEntry(X_Notes, 9)>>,
     <<ExceptionEntry(X_SpecialCut, 3), ExceptionEntry(X_Cut, 4)>>,
     <<ExceptionEntry(X_Cut, 4), ExceptionEntry(X_SpecialCut, 3)>>,
     <<ExceptionEntry(X_Special, 7), ExceptionEntry(X_Cut, 4),
       ExceptionEntry(X_Notes, 9)>>}

\* the media files of the folder "Season 5": names the parser takes, and
\* names it does not take that hold no, one or several of the substrings
\* (none of them is a name in brackets with a range of episode numbers)
ExceptionNames ==
    {M_Old, M_Foo, M_FooCut, M_OldMp4, M_LegacyDawn, M_Notes, M_Cut,
     N_CutNotes, N_DirectorCut, N_LowerCut}

ExceptionsInit ==
    /\ subject \in [filepath : {LibPath(RepoSeasonDir(5), n) :
                                    n \in ExceptionNames},
                    exception_mapping : ExceptionMappings]
    /\ returned = <<>>
    /\ cpc = "exceptions"

ExceptionsStart ==
    /\ ExceptionsInit
    /\ ScanIdle
    /\ RangesIdle
    /\ ParseIdle
    /\ RenameIdle
    /\ TitleIdle
    /\ ImportIdle

\* main: one iteration of "for filepath in media_files" in the folder of
\* Baratie: what it appends to pending and whether it prints the warning
media_file_step ==
    /\ cpc = "exceptions"
    /\ "main" \notin DOMAIN returned
    /\ returned' = Returning("main",
           [pending |-> pending_with(<<>>, subject.filepath,
                                     rename_seasons[1],
                                     subject.exception_mapping),
            warning |-> exception_warning(subject.filepath,
                                          subject.exception_mapping)])
    /\ UNCHANGED <<subject, cpc, otherThanCall>>

ExceptionsNext ==
    media_file_step

SpecExceptions ==
    ExceptionsStart /\ [][ExceptionsNext]_vars

\* the substrings of the mapping that occur in the name of the file
substrings_in_name ==
    {k \in 1..Len(subject.exception_mapping) :
         Contains(subject.filepath.name, subject.exception_mapping[k].str)}

\* the mapping is consulted only for a file the parser does not take, and a
\* file with one substring of the mapping is queued with its episode number
OneExceptionQueued ==
    (cpc = "exceptions" /\ "main" \in DOMAIN returned) =>
        IF get_episode_from_media(subject.filepath.name).ok
        THEN /\ returned["main"].pending
                    = <<[get_episode_from_media(subject.filepath.name)
                             EXCEPT !.filepath = subject.filepath]>>
             /\ ~returned["main"].warning
        ELSE /\ substrings_in_name = {} => returned["main"].pending = <<>>
             /\ \A k \in substrings_in_name :
                    substrings_in_name = {k}
                        => /\ Len(returned["main"].pending) = 1
                           /\ returned["main"].pending[1].number
                                  = subject.exception_mapping[k].ep
                           /\ returned["main"].pending[1].season = 5

\* C28: the exception mapping is consulted only for a file the parser could
\* not parse; a file with exactly one substring of the mapping is queued
\* with the episode number of that substring, and for a file with two or
\* more a warning is printed and the file is not queued
C28_ExceptionMapping ==
    /\ OneExceptionQueued
    /\ (/\ cpc = "exceptions"
        /\ "main" \in DOMAIN returned
        /\ ~get_episode_from_media(subject.filepath.name).ok
        /\ Cardinality(substrings_in_name) >= 2)
           => /\ returned["main"].warning
              /\ returned["main"].pending = <<>>
(***************************************************************************)
(* tools/import_episode.py: the source video is deleted after its copies   *)
(***************************************************************************)
\* the video file process_episode is called for
source_video ==
    Head(video_queue).filepath

\* process_episode has removed the video file it was called for
SourceRemoved ==
    /\ source_video \in DOMAIN disk.files
    /\ source_video \notin DOMAIN disk'.files

\* after the step the folder target_dir holds the video under the name
\* copy_files gave it, with what the source held before the step
CopiedTo(target_dir) ==
    Bind(LibPath(target_dir,
                 generate_plex_filename(last'.season, last'.episode,
                                        last'.title)
                     \o Head(video_queue).extension),
         LAMBDA dest : /\ dest \in DOMAIN disk'.files
                       /\ disk'.files[dest] = disk.files[source_video])

\* one process_episode, seen from the source video: it is removed only by a
\* call that went through outside a dry run and left a copy in both target
\* directories; it is still there when copy_files raised or the run is dry
DeleteStep ==
    /\ SourceRemoved
           => /\ last'.outcome = "processed"
              /\ ~config.dry_run
              /\ \A k \in 1..2 : CopiedTo(target_dirs(last'.season)[k])
    /\ (last'.outcome = "raised" \/ config.dry_run)
           => source_video \in DOMAIN disk'.files

\* C29: the processed source video is deleted only after every copy of its
\* batch has succeeded: when the source is removed a copy of it lies in each
\* target directory, and when the copy failed or was suppressed by dry-run
\* the source video exists at the end of processing the file
C29_DeletedOnlyAfterCopies ==
    [][EpisodeStep => DeleteStep]_vars

\* a file was processed outside a dry run, its source is gone and both
\* target directories hold the copy
C29_Witness ==
    /\ last.called
    /\ last.outcome = "processed"
    /\ ~config.dry_run
    /\ LibPath(SourceRoot, last.filename) \notin DOMAIN disk.files
    /\ \A k \in 1..2 :
           \E p \in DOMAIN disk.files :
               /\ p.dir = target_dirs(last.season)[k]
               /\ disk.files[p] = video_body(last.filename)
(***************************************************************************)
(* dist/rename.py: a second run, and the media files of a folder           *)
(***************************************************************************)
\* len(list(folder.glob("*.mkv")) + list(folder.glob("*.mp4")))
media_count(tree, dir) ==
    Cardinality({p \in video_files(tree) : p.dir = dir})

\* a step of the run leaves as many media files in every folder as it found
MediaKept ==
    \A p \in DOMAIN lib \cup DOMAIN lib' :
        media_count(lib', p.dir) = media_count(lib, p.dir)

\* what a second run appends to pending for the media file p of the library
second_pending(p) ==
    pending_after(<<>>, p, rename_seasons[media_rank(lib, p) \div 2])

\* the second run neither renames nor copies for the episode: no record, a
\* sidecar that is there already, or a name that is the new name already
second_run_keeps(episode) ==
    \/ lookup_key(episode) \notin DOMAIN nfo_data_lookup
    \/ /\ args.keep_original
       /\ rename_nfo(lib, repo, episode,
                     nfo_data_lookup[lookup_key(episode)], FALSE) = lib
    \/ /\ ~args.keep_original
       /\ ~rename_media_renames(episode,
                                nfo_data_lookup[lookup_key(episode)], FALSE)

\* a second run over the library as it is, with the lookup table of the
\* same repository, copies no tvshow.nfo and no season.nfo, and renames or
\* copies for no media file
SecondRunIdle ==
    /\ copy_season_nfos(
           copy_if_different(repo[LibPath(<<>>, S_TvshowNfo)],
                             LibPath(<<>>, S_TvshowNfo), lib, FALSE),
           repo, 1, FALSE) = lib
    /\ \A p \in UNION {media_files(lib, j) : j \in 1..Len(rename_seasons)} :
           \A k \in 1..Len(second_pending(p)) :
               second_run_keeps(second_pending(p)[k])

\* after a complete run that was not dry a second run does nothing
Idempotent ==
    (rpc = "done" /\ ~args.dry_run) => SecondRunIdle

\* C30: the rename script is idempotent and loses no media file: after one
\* complete non-dry run a second run with the same sidecar repository
\* performs no rename and no copy, and every run leaves as many media files
\* in each season folder as it found
C30_IdempotentAndKeepsMedia ==
    /\ []Idempotent
    /\ [][MediaKept]_vars
====
